---- MODULE Spec2Model ----
(***************************************************************************)
(* prompt-search: incremental ingestion of line-delimited session logs     *)
(* (ingest.py, extract.py, db.py) and the dual-mode retrieval (search.py). *)
(*                                                                         *)
(* A source file is a sequence of bytes.  A record is the three bytes      *)
(* "{", body, "}" and a line ends with "\n"; the body letter stands for    *)
(* the JSON object of the record (EventOf).  Any other non-blank line is   *)
(* not valid JSON, except a line of digits, which is valid JSON that is    *)
(* not an object.  The byte "x" stands for a record one of whose strings   *)
(* holds a byte that is not valid UTF-8, and the byte "X" for such a byte  *)
(* outside any string.                                                     *)
(***************************************************************************)
EXTENDS Integers, Sequences, FiniteSets, TLC

VARIABLES
    fs,         \* the source directory: path -> [exists, content, mtime]
    clock,      \* number of writes made to the source directory so far
    store,      \* the committed database tables: docs, sessions, session_files
    txn,        \* the tables as the refresh connection sees them (uncommitted work)
    settings,   \* the settings table: fts_available, fts_index_ready
    fts_index,  \* the full-text index: [built, entries], the ids and texts indexed
    pc,         \* position of the refresh run: idle, loop, tail, post
    args,       \* arguments and locals of the run: full, reindex, fts_ok
    paths,      \* the files the run has still to visit, in sorted order
    cur,        \* the file being tailed: its stat and its cursor row
    stats,      \* the RefreshStats of the run
    outcome,    \* how the last run ended: none, running, returned, raised, killed
    quiet,      \* history: consecutive returned runs with no write since they began
    rewritten,  \* history: the paths whose file was ever replaced or removed
    truncs,     \* history: the paths whose truncation the run under way detected
    probe       \* the inputs and result of the function under test (Spec* harnesses)

vars == <<fs, clock, store, txn, settings, fts_index, pc, args, paths, cur, stats,
          outcome, quiet, rewritten, truncs, probe>>

-----------------------------------------------------------------------------
(* Bounds of the model *)

\* the number of writes made to the source directory
MaxWrites == 3

-----------------------------------------------------------------------------
(* Values *)

NULL == "null"

\* the source files, in the order sorted() visits them
PathOrder == <<"a.jsonl", "b.jsonl">>

Paths == {PathOrder[i] : i \in 1..Len(PathOrder)}

Whitespace == {" ", "\n"}

\* the record bodies: m, k session_meta; u user message; a assistant message
\* with a summary; r agent_reasoning event; q the user message that the
\* record x decodes to, U+FFFD ("?") in the place of its invalid byte
Bodies == {"m", "k", "u", "a", "r", "w", "q"}

Digits == {"7"}

SessFields == {"cwd", "originator", "cli_version", "source", "model_provider",
               "instructions"}

NoAttrs == [k \in SessFields |-> NULL]

Min(S) == CHOOSE x \in S : \A y \in S : x <= y

Max(S) == CHOOSE x \in S : \A y \in S : y <= x

\* the JSON object a record body stands for; timestamp 0 is an absent timestamp
EventOf(b) ==
    CASE b = "m" -> [type |-> "session_meta", timestamp |-> 2,
                     payload |-> [id |-> "s1", timestamp |-> 1,
                                  attrs |-> [NoAttrs EXCEPT !["cwd"] = "/x"]]]
      [] b = "k" -> [type |-> "session_meta", timestamp |-> 3,
                     payload |-> [id |-> "s2", timestamp |-> 0,
                                  attrs |-> [NoAttrs EXCEPT !["cwd"] = "/y",
                                                            !["source"] = "cli"]]]
      [] b = "u" -> [type |-> "response_item", timestamp |-> 4,
                     payload |-> [type |-> "message", role |-> "user",
                                  content |-> << <<"h", "i">> >>, summary |-> <<>>]]
      [] b = "a" -> [type |-> "response_item", timestamp |-> 5,
                     payload |-> [type |-> "message", role |-> "assistant",
                                  content |-> << <<"y", "o">>, <<" ">> >>,
                                  summary |-> << <<"o", "k">> >>]]
      [] b = "r" -> [type |-> "event_msg", timestamp |-> 0,
                     payload |-> [type |-> "agent_reasoning", text |-> <<"h", "m">>]]
      [] b = "w" -> [type |-> "response_item", timestamp |-> 6,
                     payload |-> [type |-> "message", role |-> "user",
                                  content |-> << <<"_", "h">> >>, summary |-> <<>>]]
      [] b = "q" -> [type |-> "response_item", timestamp |-> 4,
                     payload |-> [type |-> "message", role |-> "user",
                                  content |-> << <<"h", "?">> >>, summary |-> <<>>]]

-----------------------------------------------------------------------------
(* extract.py *)

\* not a string, or a string that str.strip() empties; a text is a sequence of
\* characters
IsBlank(txt) == txt = NULL \/ \A i \in 1..Len(txt) : txt[i] \in Whitespace

\* _iter_message_texts, _iter_summary_texts: the non-blank texts, in order
IterTexts(items) == SelectSeq(items, LAMBDA txt : ~IsBlank(txt))

\* add_doc: one ExtractedDoc; the id is file_path:line_no:seg_idx
MakeDoc(file_path, line_no, seg_idx, hint, ev, role, kind, inner, text) ==
    [doc_id |-> <<file_path, line_no, seg_idx>>, session_id |-> hint,
     file_path |-> file_path, line_no |-> line_no, event_ts |-> ev.timestamp,
     event_type |-> ev.type, inner_type |-> inner, role |-> role, kind |-> kind,
     text |-> text]

\* an extraction that numbers the summary segments from 1 again
ExtractMessageRestart(ev, file_path, line_no, hint, include_assistant) ==
    LET pl == ev.payload
        cs == IterTexts(pl.content)
        ss == IterTexts(pl.summary)
    IN  IF pl.role = "assistant" /\ ~include_assistant THEN <<>>
        ELSE [i \in 1..Len(cs) |->
                 MakeDoc(file_path, line_no, i, hint, ev, pl.role,
                         "message_content", "message", cs[i])]
             \o [i \in 1..Len(ss) |->
                 MakeDoc(file_path, line_no, i, hint, ev, pl.role,
                         "message_summary", "message", ss[i])]

\* lines 69-99: the documents of a message record
ExtractMessage(ev, file_path, line_no, hint, include_assistant) ==
    LET pl == ev.payload
        cs == IterTexts(pl.content)
        ss == IterTexts(pl.summary)
    IN  IF pl.role = "assistant" /\ ~include_assistant THEN <<>>
        ELSE [i \in 1..Len(cs) |->
                 MakeDoc(file_path, line_no, i, hint, ev, pl.role,
                         "message_content", "message", cs[i])]
             \o [i \in 1..Len(ss) |->
                 MakeDoc(file_path, line_no, Len(cs) + i, hint, ev, pl.role,
                         "message_summary", "message", ss[i])]

\* util.json_dumps_pretty of a JSON string: the text between double quotes (the
\* characters of the model need no escape)
json_dumps_pretty(obj) == <<"\"">> \o obj \o <<"\"">>

\* lines 109, 123-125, 139-147: the text an internal record carries, NULL when
\* the key that holds it is missing
InternalText(pl) ==
    CASE pl.type = "agent_reasoning" ->
             IF "text" \in DOMAIN pl THEN pl.text ELSE NULL
      [] pl.type = "item_completed" ->
             IF "item" \in DOMAIN pl /\ "text" \in DOMAIN pl.item
             THEN pl.item.text ELSE NULL
      [] pl.type = "exited_review_mode" ->
             IF "review_output" \in DOMAIN pl
             THEN json_dumps_pretty(pl.review_output) ELSE NULL

\* an extraction of event_msg records that ignores include_internal
ExtractEventMsgUngated(ev, file_path, line_no, hint, include_internal) ==
    LET pl == ev.payload
        inner == pl.type
        kind == IF inner = "exited_review_mode" THEN "review_output" ELSE inner
    IN  IF inner \in {"agent_reasoning", "item_completed", "exited_review_mode"}
           /\ ~IsBlank(InternalText(pl))
        THEN <<MakeDoc(file_path, line_no, 1, hint, ev, NULL, kind, inner,
                       InternalText(pl))>>
        ELSE <<>>

\* lines 101-150: the documents of an event_msg record
ExtractEventMsg(ev, file_path, line_no, hint, include_internal) ==
    LET pl == ev.payload
        inner == pl.type
        kind == IF inner = "exited_review_mode" THEN "review_output" ELSE inner
    IN  IF inner \in {"user_message", "agent_message"} THEN <<>>
        ELSE IF inner \in {"agent_reasoning", "item_completed", "exited_review_mode"}
        THEN IF ~include_internal \/ IsBlank(InternalText(pl))
             THEN <<>>
             ELSE <<MakeDoc(file_path, line_no, 1, hint, ev, NULL, kind, inner,
                            InternalText(pl))>>
        ELSE <<>>

extract_docs_from_event(ev, file_path, line_no, hint, include_assistant, include_internal) ==
    IF ev.type = "response_item"
    THEN IF ev.payload.type = "message"
         THEN ExtractMessage(ev, file_path, line_no, hint, include_assistant)
         ELSE <<>>
    ELSE IF ev.type = "event_msg"
    THEN ExtractEventMsg(ev, file_path, line_no, hint, include_internal)
    ELSE <<>>

\* extract_session_meta: whether the record is a session_meta record with a
\* non-empty id; its result is then ev.payload
extract_session_meta(ev) ==
    ev.type = "session_meta" /\ ev.payload.id \notin {NULL, ""}

-----------------------------------------------------------------------------
(* ingest.py: the helpers of refresh *)

Coalesce(x, y) == IF x # NULL THEN x ELSE y

\* a LEAST that is null as soon as one argument is
LeastOrNull(x, y) == IF x = 0 \/ y = 0 THEN 0 ELSE IF x <= y THEN x ELSE y

\* LEAST and GREATEST of the store skip an absent value (0)
Least(x, y) == IF x = 0 THEN y ELSE IF y = 0 THEN x ELSE IF x <= y THEN x ELSE y

Greatest(x, y) == IF x >= y THEN x ELSE y

\* _upsert_session: ts is the payload's timestamp, else the record's
UpsertSession(sessions, meta, event_ts) ==
    LET sid == meta.id
        ts == IF meta.timestamp # 0 THEN meta.timestamp ELSE event_ts
        new == [first_ts |-> ts, last_ts |-> ts, attrs |-> meta.attrs]
    IN  IF sid \notin DOMAIN sessions
        THEN [s \in DOMAIN sessions \cup {sid} |->
                 IF s = sid THEN new ELSE sessions[s]]
        ELSE LET old == sessions[sid] IN
             [sessions EXCEPT ![sid] =
                 [first_ts |-> Least(IF old.first_ts # 0 THEN old.first_ts ELSE ts, ts),
                  last_ts |-> Greatest(IF old.last_ts # 0 THEN old.last_ts ELSE ts, ts),
                  attrs |-> [k \in SessFields |-> Coalesce(meta.attrs[k], old.attrs[k])]]]

HasId(docs, id) == \E e \in docs : e.doc_id = id

\* INSERT OR REPLACE in the place of INSERT OR IGNORE
InsertOrReplace(docs, d) ==
    [docs |-> {e \in docs : e.doc_id # d.doc_id} \cup {d}, raised |-> FALSE]

\* one INSERT OR IGNORE INTO docs: doc_id is the primary key of docs, and a row
\* whose doc_id is stored already is dropped without an error
InsertOrIgnore(docs, d) ==
    [docs |-> IF HasId(docs, d.doc_id) THEN docs ELSE docs \cup {d}, raised |-> FALSE]

\* the loop of _insert_docs over the batch, in order; an error ends it
RECURSIVE InsertLoop(_, _, _)
InsertLoop(docs, batch, i) ==
    IF i > Len(batch) THEN [docs |-> docs, raised |-> FALSE]
    ELSE LET r == InsertOrIgnore(docs, batch[i])
         IN  IF r.raised THEN r ELSE InsertLoop(r.docs, batch, i + 1)

\* _insert_docs: the table after the statements; the count it returns is the
\* number of statements, Len(batch)
InsertDocs(docs, batch) == InsertLoop(docs, batch, 1).docs

\* _delete_file_docs
DeleteFileDocs(docs, file_path) == {d \in docs : d.file_path # file_path}

-----------------------------------------------------------------------------
(* ingest.py: the read loop of one file *)

Strip(s) ==
    LET idx == {i \in 1..Len(s) : s[i] \notin Whitespace}
    IN  IF idx = {} THEN <<>> ELSE SubSeq(s, Min(idx), Max(idx))

\* a parser that takes every line that is not a record for a value that is
\* not an object
JsonLoadsLenient(line) ==
    IF Len(line) = 3 /\ line[1] = "{" /\ line[3] = "}" /\ line[2] \in Bodies
    THEN [ok |-> TRUE, is_dict |-> TRUE, body |-> line[2]]
    ELSE [ok |-> TRUE, is_dict |-> FALSE, body |-> NULL]

\* json.loads of a stripped line: ok, whether the value is an object, its body
JsonLoads(line) ==
    IF Len(line) = 3 /\ line[1] = "{" /\ line[3] = "}" /\ line[2] \in Bodies
    THEN [ok |-> TRUE, is_dict |-> TRUE, body |-> line[2]]
    ELSE IF \A i \in 1..Len(line) : line[i] \in Digits
    THEN [ok |-> TRUE, is_dict |-> FALSE, body |-> NULL]
    ELSE [ok |-> FALSE, is_dict |-> FALSE, body |-> NULL]

\* f.readline() at byte position pos: the position after the line read
LineEnd(c, pos) ==
    LET nl == {j \in (pos + 1)..Len(c) : c[j] = "\n"}
    IN  IF nl = {} THEN Len(c) ELSE Min(nl)

\* a mutant of StartAt: the loop ignores the cursor and reads from the start
StartAtZero(last_offset, last_line_no) ==
    [offset |-> 0, line_no |-> 0, good_off |-> 0, good_line |-> 0]

\* a mutant of StartAt: the last known good position starts at zero
StartAtGoodZero(last_offset, last_line_no) ==
    [offset |-> last_offset, line_no |-> last_line_no, good_off |-> 0, good_line |-> 0]

\* lines 201-204: the position the loop starts from and the last known good
\* position before the first line is read
StartAt(last_offset, last_line_no) ==
    [offset |-> last_offset, line_no |-> last_line_no,
     good_off |-> last_offset, good_line |-> last_line_no]

\* a mutant of GoodAfter: the last known good line number is not advanced
GoodAfterOffsetOnly(t, offset, line_no) == [t EXCEPT !.good_off = offset]

\* the last known good position after a record was handled
GoodAfter(t, offset, line_no) ==
    [t EXCEPT !.good_off = offset, !.good_line = line_no]

\* line 215: bline.decode("utf-8", errors="replace") puts U+FFFD in the place
\* of every byte that is not valid UTF-8 and never raises, so the except
\* branch of lines 216-218 is never taken
Decode(bline) ==
    [i \in 1..Len(bline) |->
        CASE bline[i] = "x" -> "q" [] bline[i] = "X" -> "?" [] OTHER -> bline[i]]

RECURSIVE TailLoop(_, _, _)
TailLoop(c, file_path, t) ==
    IF t.pos >= Len(c) THEN t
    ELSE
    LET end == LineEnd(c, t.pos)
        bline == SubSeq(c, t.pos + 1, end)
        line == Strip(Decode(bline))
        t1 == [t EXCEPT !.lines_read = @ + 1, !.line_no = @ + 1, !.pos = end]
        js == JsonLoads(line)
    IN  IF line = <<>> THEN TailLoop(c, file_path, GoodAfter(t1, end, t1.line_no))
        ELSE IF ~js.ok THEN t1
        ELSE IF ~js.is_dict THEN TailLoop(c, file_path, GoodAfter(t1, end, t1.line_no))
        ELSE
        LET ev == EventOf(js.body)
            t2 == IF ~extract_session_meta(ev) THEN t1
                  ELSE [t1 EXCEPT !.sessions = UpsertSession(@, ev.payload, ev.timestamp),
                                  !.sessions_upsert = @ + 1,
                                  !.sid = ev.payload.id]
            extracted == extract_docs_from_event(ev, file_path, t1.line_no, t2.sid,
                                                 TRUE, TRUE)
            t3 == [t2 EXCEPT !.docs = @ \o extracted, !.lines_ingested = @ + 1]
        IN  TailLoop(c, file_path, GoodAfter(t3, end, t1.line_no))

\* lines 196-262: tail the content c from the cursor position
TailFrom(c, file_path, last_offset, last_line_no, known_session_id, sessions) ==
    LET s == StartAt(last_offset, last_line_no)
    IN  TailLoop(c, file_path,
                 [pos |-> s.offset, line_no |-> s.line_no,
                  good_off |-> s.good_off, good_line |-> s.good_line,
                  sid |-> known_session_id, docs |-> <<>>, sessions |-> sessions,
                  sessions_upsert |-> 0, lines_read |-> 0, lines_ingested |-> 0])

-----------------------------------------------------------------------------
(* db.py *)

\* set_setting: the statement fails on a read-only connection
SetSetting(st, key, value) == [st EXCEPT ![key] = value]

\* an enabling that records success only and leaves the setting as it is
\* when the extension cannot be loaded
EnableUnmarked(st, loadable, writable) ==
    IF writable
    THEN [settings |-> IF loadable THEN SetSetting(st, "fts_available", "1") ELSE st,
          ok |-> loadable, raised |-> FALSE]
    ELSE [settings |-> st, ok |-> FALSE, raised |-> TRUE]

\* try_enable_fts: LOAD fts, else INSTALL and LOAD; every branch then calls
\* mark_fts_available, which writes the settings table.  On a connection that
\* cannot write, the write in the last except branch raises out of the function.
try_enable_fts(st, loadable, writable) ==
    IF writable
    THEN [settings |-> SetSetting(st, "fts_available", IF loadable THEN "1" ELSE "0"),
          ok |-> loadable, raised |-> FALSE]
    ELSE [settings |-> st, ok |-> FALSE, raised |-> TRUE]

is_fts_available(st) == st["fts_available"] = "1"

NoIndex == [built |-> FALSE, entries |-> {}]

\* rebuild_fts_index: create_fts_index over the docs table, then the ready flag
rebuild_fts_index(docs) ==
    [built |-> TRUE, entries |-> {[doc_id |-> d.doc_id, text |-> d.text] : d \in docs}]

-----------------------------------------------------------------------------
(* The refresh run and its environment *)

EmptyTables == [docs |-> {}, sessions |-> << >>, session_files |-> << >>]

NoFile == [exists |-> FALSE, content |-> <<>>, mtime |-> 0]

NoCur == [path |-> NULL, size |-> 0, mtime |-> 0, last_offset |-> 0, last_line_no |-> 0,
          known_session_id |-> NULL, truncated |-> FALSE]

ZeroStats == [files_scanned |-> 0, files_updated |-> 0, lines_read |-> 0,
              lines_ingested |-> 0, docs_inserted |-> 0, sessions_upserted |-> 0,
              fts_reindexed |-> FALSE]

NoArgs == [full |-> FALSE, reindex |-> FALSE, fts_ok |-> FALSE]

NoProbe == [op |-> "none"]

Rec(b) == <<"{", b, "}", "\n">>

\* what one write of the session writer appends to a file: a whole record, a
\* record whose newline is not written yet, that newline, the first bytes of
\* a record, the rest of it
ChunksOf(p) ==
    IF p = "a.jsonl"
    THEN {Rec("m"), Rec("u"), <<"{", "u", "}">>, <<"\n">>, <<"{", "u">>, <<"}", "\n">>}
    ELSE {Rec("u")}

\* the shorter contents a file is replaced by
RewritesOf(p) == IF p = "a.jsonl" THEN {<<>>, Rec("u")} ELSE {}

Init ==
    /\ fs = [p \in Paths |-> NoFile]
    /\ clock = 0
    /\ store = EmptyTables
    /\ txn = EmptyTables
    /\ settings = [fts_available |-> NULL, fts_index_ready |-> NULL]
    /\ fts_index = NoIndex
    /\ pc = "idle"
    /\ args = NoArgs
    /\ paths = <<>>
    /\ cur = NoCur
    /\ stats = ZeroStats
    /\ outcome = "none"
    /\ quiet = 0
    /\ rewritten = {}
    /\ truncs = {}
    /\ probe = NoProbe

\* a write made while a run is under way spoils that run for the quiet count
Disturb == quiet' = IF pc = "idle" THEN 0 ELSE -1

\* the writer appends a chunk to a file, creating the file if need be
AppendChunk(p, chunk) ==
    /\ clock < MaxWrites
    /\ fs' = [fs EXCEPT ![p] = [exists |-> TRUE, content |-> fs[p].content \o chunk,
                                mtime |-> clock + 1]]
    /\ clock' = clock + 1
    /\ Disturb
    /\ UNCHANGED <<store, txn, settings, fts_index, pc, args, paths, cur, stats,
                   outcome, rewritten, truncs, probe>>

\* the file is replaced by a new, shorter content
Rewrite(p, c) ==
    /\ clock < MaxWrites
    /\ fs[p].exists
    /\ Len(c) < Len(fs[p].content)
    /\ fs' = [fs EXCEPT ![p] = [exists |-> TRUE, content |-> c, mtime |-> clock + 1]]
    /\ clock' = clock + 1
    /\ Disturb
    /\ rewritten' = rewritten \cup {p}
    /\ UNCHANGED <<store, txn, settings, fts_index, pc, args, paths, cur, stats,
                   outcome, truncs, probe>>

\* the file is removed from the source directory
Delete(p) ==
    /\ clock < MaxWrites
    /\ fs[p].exists
    /\ fs' = [fs EXCEPT ![p] = NoFile]
    /\ clock' = clock + 1
    /\ Disturb
    /\ rewritten' = rewritten \cup {p}
    /\ UNCHANGED <<store, txn, settings, fts_index, pc, args, paths, cur, stats,
                   outcome, truncs, probe>>

\* _iter_jsonl_paths: the existing files, sorted
IterJsonlPaths(files) == SelectSeq(PathOrder, LAMBDA p : files[p].exists)

\* lines 131-135: the tables after the full reset
FullReset(tables) == EmptyTables

\* lines 125-146: the full reset, try_enable_fts, the listing, BEGIN TRANSACTION
Start(full, reindex, loadable) ==
    /\ pc = "idle"
    /\ LET tables == IF full THEN FullReset(store) ELSE store
           st == IF full
                 THEN SetSetting(SetSetting(settings, "fts_available", "0"),
                                 "fts_index_ready", "0")
                 ELSE settings
           en == try_enable_fts(st, loadable, TRUE)
       IN  /\ store' = tables
           /\ txn' = tables
           /\ settings' = en.settings
           /\ args' = [full |-> full, reindex |-> reindex, fts_ok |-> en.ok]
    /\ paths' = IterJsonlPaths(fs)
    /\ stats' = [ZeroStats EXCEPT !.files_scanned = Len(IterJsonlPaths(fs))]
    /\ cur' = NoCur
    /\ truncs' = {}
    /\ pc' = "loop"
    /\ outcome' = "running"
    /\ quiet' = IF quiet < 0 THEN 0 ELSE quiet
    /\ UNCHANGED <<fs, clock, fts_index, rewritten, probe>>

\* a truncation test that also fires when the size equals the stored offset
TruncatedOrRead(size, row) == size <= row.last_offset

\* line 167: the file is shorter than the stored offset
Truncated(size, row) == size < row.last_offset

\* a mutant of Unchanged: the size is compared with the stored offset
UnchangedByOffset(size, mtime, row) ==
    size = row.last_offset /\ mtime = row.mtime_epoch

\* lines 175-182: same size and same modification time as stored
Unchanged(size, mtime, row) == size = row.size /\ mtime = row.mtime_epoch

\* lines 149-194: stat the next file, look its cursor up, detect truncation
\* and no change
BeginFile ==
    /\ pc = "loop"
    /\ paths # <<>>
    /\ fs[Head(paths)].exists
    /\ LET p == Head(paths)
           size == Len(fs[p].content)
           mtime == fs[p].mtime
           known == p \in DOMAIN txn.session_files
           row == txn.session_files[p]
           trunc == known /\ Truncated(size, row)
           docs1 == IF trunc THEN DeleteFileDocs(txn.docs, p) ELSE txn.docs
       IN  /\ txn' = [txn EXCEPT !.docs = docs1]
           /\ truncs' = IF trunc THEN truncs \cup {p} ELSE truncs
           /\ IF known /\ Unchanged(size, mtime, row)
              THEN /\ paths' = Tail(paths)
                   /\ UNCHANGED <<pc, cur, stats>>
              ELSE /\ cur' = [path |-> p, size |-> size, mtime |-> mtime,
                              last_offset |-> IF known /\ ~trunc THEN row.last_offset ELSE 0,
                              last_line_no |-> IF known /\ ~trunc THEN row.last_line_no ELSE 0,
                              known_session_id |-> IF known THEN row.session_id ELSE NULL,
                              truncated |-> trunc]
                   /\ stats' = [stats EXCEPT !.files_updated = @ + 1]
                   /\ pc' = "tail"
                   /\ UNCHANGED paths
    /\ UNCHANGED <<fs, clock, store, settings, fts_index, args, outcome, quiet,
                   rewritten, probe>>

\* a replacement of the cursor table by the row of the file read
UpsertCursorOnly(files, p, sid, size, mtime, offset, line_no) ==
    [q \in {p} |->
        [session_id |-> sid, size |-> size, mtime_epoch |-> mtime,
         last_offset |-> offset, last_line_no |-> line_no]]

\* an upsert of the cursor row that stores no session id
UpsertCursorNoSession(files, p, sid, size, mtime, offset, line_no) ==
    [q \in DOMAIN files \cup {p} |->
        IF q # p THEN files[q]
        ELSE [session_id |-> NULL, size |-> size, mtime_epoch |-> mtime,
              last_offset |-> offset, last_line_no |-> line_no]]

\* lines 268-291: the upsert of the cursor row
UpsertCursor(files, p, sid, size, mtime, offset, line_no) ==
    [q \in DOMAIN files \cup {p} |->
        IF q # p THEN files[q]
        ELSE [session_id |-> IF p \in DOMAIN files
                             THEN Coalesce(sid, files[p].session_id) ELSE sid,
              size |-> size, mtime_epoch |-> mtime,
              last_offset |-> offset, last_line_no |-> line_no]]

\* lines 196-291: read the file from the offset, insert the documents, store
\* the cursor at the last known good position
TailFile ==
    /\ pc = "tail"
    /\ fs[cur.path].exists
    /\ LET p == cur.path
           t == TailFrom(fs[p].content, p, cur.last_offset, cur.last_line_no,
                         cur.known_session_id, txn.sessions)
       IN  /\ txn' = [docs |-> InsertDocs(txn.docs, t.docs),
                      sessions |-> t.sessions,
                      session_files |-> UpsertCursor(txn.session_files, p, t.sid, cur.size,
                                                     cur.mtime, t.good_off, t.good_line)]
           /\ stats' = [stats EXCEPT !.lines_read = @ + t.lines_read,
                                     !.lines_ingested = @ + t.lines_ingested,
                                     !.docs_inserted = @ + Len(t.docs),
                                     !.sessions_upserted = @ + t.sessions_upsert]
    /\ paths' = Tail(paths)
    /\ pc' = "loop"
    /\ UNCHANGED <<fs, clock, store, settings, fts_index, args, cur, outcome, quiet,
                   rewritten, truncs, probe>>

\* line 293: what COMMIT makes durable
Committed(durable, working) == working

\* a mutant of RolledBack: the work of the transaction stays
RolledBackKeeps(durable, working) == working

\* line 295: what the connection sees after ROLLBACK, and what a connection
\* sees that opens the store after the process died
RolledBack(durable, working) == durable

Commit ==
    /\ pc = "loop"
    /\ paths = <<>>
    /\ store' = Committed(store, txn)
    /\ pc' = "post"
    /\ UNCHANGED <<fs, clock, txn, settings, fts_index, args, paths, cur, stats,
                   outcome, quiet, rewritten, truncs, probe>>

\* lines 294-296: an exception inside the transaction (a file that vanished
\* before stat or open, an I/O or database error): ROLLBACK and re-raise
Raise ==
    /\ pc \in {"loop", "tail"}
    /\ txn' = RolledBack(store, txn)
    /\ store' = RolledBack(store, txn)
    /\ pc' = "idle"
    /\ outcome' = "raised"
    /\ paths' = <<>>
    /\ cur' = NoCur
    /\ quiet' = 0
    /\ UNCHANGED <<fs, clock, settings, fts_index, args, stats, rewritten, truncs, probe>>

\* the process is killed: the open transaction is never committed
Kill ==
    /\ pc # "idle"
    /\ txn' = IF pc = "post" THEN txn ELSE RolledBack(store, txn)
    /\ store' = IF pc = "post" THEN store ELSE RolledBack(store, txn)
    /\ pc' = "idle"
    /\ outcome' = "killed"
    /\ paths' = <<>>
    /\ cur' = NoCur
    /\ quiet' = 0
    /\ UNCHANGED <<fs, clock, settings, fts_index, args, stats, rewritten, truncs, probe>>

\* the ready flag left as it is
ClearReadyNever(st, docs_inserted) == st

\* a clearing of the ready flag that does not look at the number of documents
ClearReadyAlways(st, docs_inserted) == SetSetting(st, "fts_index_ready", "0")

\* lines 306-308: documents arrived and the index was not rebuilt
ClearReady(st, docs_inserted) ==
    IF docs_inserted > 0 THEN SetSetting(st, "fts_index_ready", "0") ELSE st

\* a failed rebuild that is reported as done
RebuildFailedAsDone(st) == [st EXCEPT !.fts_reindexed = TRUE]

\* lines 303-304: the exception of the rebuild is caught and recorded
RebuildFailed(st) == [st EXCEPT !.fts_reindexed = FALSE]

\* what a rebuild that raised can leave behind: the index as it was or dropped
\* (the PRAGMA failed), or the new index without the ready flag (a settings
\* write after the PRAGMA failed)
FailedRebuilds(index, docs) == {index, NoIndex, rebuild_fts_index(docs)}

\* lines 298-309: rebuild the index, or clear the ready flag, and return
Finish(rebuild_ok) ==
    /\ pc = "post"
    /\ IF args.reindex /\ stats.docs_inserted > 0 /\ args.fts_ok
       THEN IF rebuild_ok
            THEN /\ fts_index' = rebuild_fts_index(store.docs)
                 /\ settings' = SetSetting(settings, "fts_index_ready", "1")
                 /\ stats' = [stats EXCEPT !.fts_reindexed = TRUE]
            ELSE /\ fts_index' \in FailedRebuilds(fts_index, store.docs)
                 /\ stats' = RebuildFailed(stats)
                 /\ UNCHANGED settings
       ELSE /\ rebuild_ok
            /\ settings' = ClearReady(settings, stats.docs_inserted)
            /\ UNCHANGED <<fts_index, stats>>
    /\ pc' = "idle"
    /\ outcome' = "returned"
    /\ paths' = <<>>
    /\ cur' = NoCur
    /\ quiet' = IF quiet < 0 THEN 0 ELSE IF quiet < 2 THEN quiet + 1 ELSE 2
    /\ UNCHANGED <<fs, clock, store, txn, args, rewritten, truncs, probe>>

Write ==
    \/ \E p \in Paths : \E chunk \in ChunksOf(p) : AppendChunk(p, chunk)
    \/ \E p \in Paths : \E c \in RewritesOf(p) : Rewrite(p, c)
    \/ \E p \in Paths : Delete(p)

\* The ingestion runs: every run reindexes, with the text-search extension
\* loadable and the rebuild succeeding.
Next ==
    \/ Write
    \/ \E full \in BOOLEAN : Start(full, TRUE, TRUE)
    \/ BeginFile
    \/ TailFile
    \/ Commit
    \/ Raise
    \/ Kill
    \/ Finish(TRUE)

Spec == Init /\ [][Next]_vars

\* The ingestion runs with every choice of the index inputs: reindex asked for
\* or not, the extension loadable or not, the rebuild succeeding or raising.
\* The writer works between the runs: it appends whole records to a.jsonl or
\* replaces the file by a shorter one.
WriteFts ==
    /\ pc = "idle"
    /\ \/ AppendChunk("a.jsonl", Rec("u"))
       \/ \E c \in RewritesOf("a.jsonl") : Rewrite("a.jsonl", c)

NextFts ==
    \/ WriteFts
    \/ \E full \in BOOLEAN, reindex \in BOOLEAN, loadable \in BOOLEAN :
          Start(full, reindex, loadable)
    \/ BeginFile
    \/ TailFile
    \/ Commit
    \/ Raise
    \/ Kill
    \/ Finish(TRUE)
    \/ Finish(FALSE)

SpecFts == Init /\ [][NextFts]_vars

-----------------------------------------------------------------------------
(* What the claims speak of *)

\* the last run returned and no file was written since it began
Settled == pc = "idle" /\ outcome = "returned" /\ quiet >= 1

\* the step in which the run finishes tailing the file cur.path
TailStep == pc = "tail" /\ pc' = "loop"

\* the byte position where the final line of c starts
FinalLineStart(c) ==
    LET body == IF c # <<>> /\ c[Len(c)] = "\n" THEN Len(c) - 1 ELSE Len(c)
        nl == {j \in 1..body : c[j] = "\n"}
    IN  IF nl = {} THEN 0 ELSE Max(nl)

FinalLine(c) == Strip(SubSeq(c, FinalLineStart(c) + 1, Len(c)))

\* the final line is not blank and is not newline-terminated or not valid JSON
TruncatedFinalLine(c) ==
    /\ FinalLine(c) # <<>>
    /\ c[Len(c)] # "\n" \/ ~JsonLoads(FinalLine(c)).ok

NewlinesBefore(c, k) == Cardinality({j \in 1..k : c[j] = "\n"})

DocsOf(docs, p) == {d \in docs : d.file_path = p}

IdsOf(docs) == {d.doc_id : d \in docs}

SeqRange(q) == {q[i] : i \in 1..Len(q)}

\* ingesting the content c of the file p from offset 0 into an empty store
Fresh(c, p) == TailFrom(c, p, 0, 0, NULL, << >>)

\* the bodies of the records c holds after byte offset off, when these bytes
\* are whole newline-terminated records and nothing else; <<"?">> otherwise
RECURSIVE RecordsAfter(_, _)
RecordsAfter(c, off) ==
    IF off >= Len(c) THEN <<>>
    ELSE IF off + 4 <= Len(c) /\ c[off + 1] = "{" /\ c[off + 2] \in Bodies
            /\ c[off + 3] = "}" /\ c[off + 4] = "\n"
    THEN LET rest == RecordsAfter(c, off + 4)
         IN  IF rest = <<"?">> THEN rest ELSE <<c[off + 2]>> \o rest
    ELSE <<"?">>

\* the session id that the i-th of the records bs gets as its hint: the id of
\* the last session_meta record among the first i, else the remembered one
HintAt(bs, i, known) ==
    LET ms == {j \in 1..i : extract_session_meta(EventOf(bs[j]))}
    IN  IF ms = {} THEN known ELSE EventOf(bs[Max(ms)]).payload.id

\* the documents of the records bs read as the lines line0+1, line0+2, ...
DocsOfRecords(bs, p, line0, known) ==
    UNION {SeqRange(extract_docs_from_event(EventOf(bs[i]), p, line0 + i,
                                            HintAt(bs, i, known), TRUE, TRUE))
           : i \in 1..Len(bs)}

-----------------------------------------------------------------------------
(* Partial lines *)

\* C1: if the final line of a file is truncated (not newline-terminated, or
\* not valid JSON), then after refresh the persisted offset and line number of
\* the file are not past the start of that final line.
C1_PartialLineSafety ==
    Settled =>
        \A p \in Paths :
            (fs[p].exists /\ TruncatedFinalLine(fs[p].content)) =>
                /\ p \in DOMAIN store.session_files
                /\ store.session_files[p].last_offset <= FinalLineStart(fs[p].content)
                /\ store.session_files[p].last_line_no
                       <= NewlinesBefore(fs[p].content, FinalLineStart(fs[p].content))

\* at a tail step: the file was only ever appended to, the run before left the
\* cursor short of the size it saw, and the line at the cursor is by now a
\* whole newline-terminated record that ends beyond that size
CompletedLine(p) ==
    /\ p \in DOMAIN txn.session_files
    /\ p \notin rewritten
    /\ ~cur.truncated
    /\ LET row == txn.session_files[p]
           c == fs[p].content
           end == LineEnd(c, row.last_offset)
       IN  /\ row.last_offset < row.size
           /\ end > row.size
           /\ end = row.last_offset + 4
           /\ RecordsAfter(SubSeq(c, 1, end), row.last_offset) # <<"?">>

\* C2: when a run stopped at an incomplete final line and the writer then
\* completed the line into a newline-terminated record, the next run inserts
\* the documents of that record, which were not stored before, once each, and
\* moves the cursor past the record; and no run inserts a document that the
\* store already holds (every insert it counts adds a row).
C2_CompletedLineOnce ==
    [][TailStep =>
        LET p == cur.path
            row == txn.session_files[p]
            c == fs[p].content
            recdocs == DocsOfRecords(<<c[row.last_offset + 2]>>, p, row.last_line_no,
                                     row.session_id)
        IN  /\ stats'.docs_inserted - stats.docs_inserted
                   = Cardinality(txn'.docs) - Cardinality(txn.docs)
            /\ CompletedLine(p) =>
                   /\ recdocs \subseteq txn'.docs
                   /\ IdsOf(recdocs) \cap IdsOf(txn.docs) = {}
                   /\ {d \in DocsOf(txn'.docs, p) : d.line_no = row.last_line_no + 1}
                          = recdocs
                   /\ txn'.session_files[p].last_offset >= row.last_offset + 4
                   /\ txn'.session_files[p].last_line_no >= row.last_line_no + 1
      ]_vars

\* a run has just read the completed line of a.jsonl: the committed cursor is
\* short of the committed size, the new cursor is beyond it, with new documents
C2_Witness ==
    /\ pc = "loop"
    /\ cur.path = "a.jsonl"
    /\ ~cur.truncated
    /\ "a.jsonl" \notin rewritten
    /\ "a.jsonl" \in DOMAIN store.session_files
    /\ store.session_files["a.jsonl"].last_offset < store.session_files["a.jsonl"].size
    /\ txn.session_files["a.jsonl"].last_offset > store.session_files["a.jsonl"].size
    /\ DocsOf(txn.docs, "a.jsonl") \ store.docs # {}

-----------------------------------------------------------------------------
(* Appends and repeated runs *)

\* at a tail step: the file has a cursor, was not truncated, and holds after
\* the cursor whole newline-terminated records and nothing else
AppendedRecords(p) ==
    /\ p \in DOMAIN txn.session_files
    /\ ~cur.truncated
    /\ RecordsAfter(fs[p].content, txn.session_files[p].last_offset) \notin {<<>>, <<"?">>}

\* C3: when N well-formed newline-terminated records were appended to a file
\* ingested before, the run adds exactly the documents extraction yields from
\* these N records: the documents stored before stay as they are, none of the
\* new ids was stored before, and the cursor ends after the N records.
C3_AppendOnlyGrowth ==
    [][(TailStep /\ AppendedRecords(cur.path)) =>
        LET p == cur.path
            row == txn.session_files[p]
            bs == RecordsAfter(fs[p].content, row.last_offset)
            new == DocsOfRecords(bs, p, row.last_line_no, row.session_id)
        IN  /\ txn'.docs = txn.docs \cup new
            /\ IdsOf(new) \cap IdsOf(txn.docs) = {}
            /\ stats'.docs_inserted = stats.docs_inserted + Cardinality(new)
            /\ txn'.session_files[p].last_offset = Len(fs[p].content)
            /\ txn'.session_files[p].last_line_no = row.last_line_no + Len(bs)
      ]_vars

\* a run has just read records appended to a.jsonl, which it had ingested to
\* its end before: the documents of the earlier records and new ones are there
C3_Witness ==
    /\ pc = "loop"
    /\ cur.path = "a.jsonl"
    /\ ~cur.truncated
    /\ "a.jsonl" \in DOMAIN store.session_files
    /\ store.session_files["a.jsonl"].last_offset = store.session_files["a.jsonl"].size
    /\ DocsOf(store.docs, "a.jsonl") # {}
    /\ store.docs \subseteq txn.docs
    /\ txn.docs # store.docs
    /\ RecordsAfter(fs["a.jsonl"].content, store.session_files["a.jsonl"].last_offset)
           \notin {<<>>, <<"?">>}

\* C4: a run with full = false that follows a returned run, with no write to
\* any source file since that run began, leaves the documents, the sessions
\* and every cursor as they were, and counts no file updated and no document
\* inserted.
C4_IdempotentRerun ==
    [][(quiet >= 1 /\ quiet' >= 1 /\ pc # "idle" /\ ~args.full) =>
        /\ txn' = txn
        /\ store' = store
        /\ stats'.files_updated = 0
        /\ stats'.docs_inserted = 0
      ]_vars

\* the second of two runs with no write since the first began has returned
C4_Witness ==
    /\ pc = "idle"
    /\ outcome = "returned"
    /\ quiet = 2
    /\ ~args.full
    /\ stats.files_scanned = 2
    /\ store.docs # {}
    /\ \E p \in DOMAIN store.session_files :
           store.session_files[p].last_offset < store.session_files[p].size

-----------------------------------------------------------------------------
(* Truncation *)

\* C5: a run that finds a file shorter than its stored offset deletes the
\* documents of the file and reads it again from offset 0 and line 0, so that
\* afterwards the documents of the file are those a fresh ingest of its
\* content yields and the cursor is where the fresh ingest ends.
C5_TruncationRecovery ==
    [][(TailStep /\ cur.truncated) =>
        LET p == cur.path
            f == Fresh(fs[p].content, p)
        IN  /\ cur.last_offset = 0
            /\ cur.last_line_no = 0
            /\ DocsOf(txn.docs, p) = {}
            /\ DocsOf(txn'.docs, p) = SeqRange(f.docs)
            /\ txn'.session_files[p].last_offset = f.good_off
            /\ txn'.session_files[p].last_line_no = f.good_line
      ]_vars

-----------------------------------------------------------------------------
(* The transaction *)

\* C6: when an exception is raised, or the process is killed, between BEGIN
\* TRANSACTION and COMMIT, the store holds the documents, sessions and cursors
\* it held when the transaction began, and no step inside the transaction
\* changes what is committed; an exception ends the run as raised.
C6_AtomicRollback ==
    [][(pc = "loop" \/ pc = "tail") =>
        \/ pc' = "post"
        \/ /\ store' = store
           /\ pc' = "idle" => (txn' = store /\ outcome' \in {"raised", "killed"})
      ]_vars

\* a run raised after it had inserted documents, and none of them is stored
C6_Witness ==
    /\ pc = "idle"
    /\ outcome = "raised"
    /\ stats.docs_inserted > 0
    /\ store.docs = {}
    /\ txn = store

-----------------------------------------------------------------------------
(* The cursor *)

\* lines 161-165: the offset and line number a run starts from: those of the
\* cursor row, and zero for a file with no row
LastOffset(tables, p) ==
    IF p \in DOMAIN tables.session_files THEN tables.session_files[p].last_offset ELSE 0

LastLineNo(tables, p) ==
    IF p \in DOMAIN tables.session_files THEN tables.session_files[p].last_line_no ELSE 0

CursorForward(p) ==
    /\ LastOffset(store', p) >= LastOffset(store, p)
    /\ LastLineNo(store', p) >= LastLineNo(store, p)

\* C7 as claimed: from one committed state to the next, the persisted offset
\* and line number of a file never decrease, unless the run detected the
\* truncation of the file.
C7_CursorMonotonic_Claimed ==
    [][\A p \in Paths : (p \in truncs \/ CursorForward(p))]_vars

\* C7: from one committed state to the next, the persisted offset and line
\* number of a file never decrease, unless the run detected the truncation of
\* the file or the step is the full reset of a run with full = true, which
\* deletes every cursor.
C7_CursorMonotonic ==
    [][\A p \in Paths :
          \/ p \in truncs
          \/ pc = "idle" /\ pc' = "loop" /\ args'.full
          \/ CursorForward(p)
      ]_vars

\* a run has committed a cursor of a.jsonl further on than the one it found
C7_Witness ==
    /\ pc = "post"
    /\ cur.path = "a.jsonl"
    /\ ~cur.truncated
    /\ cur.last_offset > 0
    /\ store.session_files["a.jsonl"].last_offset > cur.last_offset

\* the content is whole lines that a read from offset 0 parses to the end
WholeLines(c) ==
    /\ c # <<>>
    /\ c[Len(c)] = "\n"
    /\ Fresh(c, "a.jsonl").good_off = Len(c)

\* C9: the ids of the documents stored for a file that was only ever appended
\* to and was ingested over several runs while it was written are the ids a
\* read of the same content from offset 0 gives (as truncation recovery and a
\* full reset do).
C9_StableIds ==
    Settled =>
        \A p \in Paths \ rewritten :
            (fs[p].exists /\ WholeLines(fs[p].content)) =>
                IdsOf(DocsOf(store.docs, p)) = IdsOf(SeqRange(Fresh(fs[p].content, p).docs))

-----------------------------------------------------------------------------
(* _insert_docs on a table that holds documents already *)

MaxProbeLine == 3

\* documents as extraction makes them, two texts for every id
ProbeDocs ==
    {MakeDoc("a.jsonl", l, 1, NULL, EventOf("u"), "user", "message", "input_text", t)
       : l \in 1..MaxProbeLine, t \in {<<"h", "i">>, <<"y", "o">>}}

\* doc_id is the primary key of docs
UniqueIds(docs) == \A d \in docs, e \in docs : d.doc_id = e.doc_id => d = e

ProbeTables == {D \in SUBSET ProbeDocs : UniqueIds(D)}

ProbeBatches == {<<d>> : d \in ProbeDocs} \cup {<<d, e>> : d \in ProbeDocs, e \in ProbeDocs}

InitInsert ==
    /\ fs = [p \in Paths |-> NoFile]
    /\ clock = 0
    /\ store = EmptyTables
    /\ txn = EmptyTables
    /\ settings = [fts_available |-> NULL, fts_index_ready |-> NULL]
    /\ fts_index = NoIndex
    /\ pc = "idle"
    /\ args = NoArgs
    /\ paths = <<>>
    /\ cur = NoCur
    /\ stats = ZeroStats
    /\ outcome = "none"
    /\ quiet = 0
    /\ rewritten = {}
    /\ truncs = {}
    /\ probe \in {[op |-> "insert_docs", docs |-> D, batch |-> B] :
                    D \in ProbeTables, B \in ProbeBatches}

ApplyInsert ==
    /\ probe.op = "insert_docs"
    /\ probe' = [op |-> "inserted", docs |-> probe.docs, batch |-> probe.batch,
                 result |-> InsertLoop(probe.docs, probe.batch, 1)]
    /\ UNCHANGED <<fs, clock, store, txn, settings, fts_index, pc, args, paths, cur,
                   stats, outcome, quiet, rewritten, truncs>>

NextInsert == ApplyInsert

SpecInsert == InitInsert /\ [][NextInsert]_vars

\* no table of the store holds two documents with one id
DocIdsUnique == UniqueIds(store.docs) /\ UniqueIds(txn.docs)

\* C8: after _insert_docs on a table without duplicate ids, no error was
\* raised, the table holds no two documents with the same id, every document
\* stored before is there unchanged (also when the batch brought another
\* document with its id), every id of the batch is stored, and a document that
\* was added is one of the batch whose id was not stored before.
C8_InsertIdempotent ==
    probe.op = "inserted" =>
        LET D == probe.docs
            R == probe.result
            B == probe.batch
        IN  /\ ~R.raised
            /\ UniqueIds(R.docs)
            /\ D \subseteq R.docs
            /\ \A i \in 1..Len(B) : HasId(R.docs, B[i].doc_id)
            /\ \A e \in R.docs \ D : e \in SeqRange(B) /\ ~HasId(D, e.doc_id)

\* a batch brought a document whose id was stored with another text, and the
\* stored one is still there
C8_Witness ==
    /\ probe.op = "inserted"
    /\ \E i \in 1..Len(probe.batch) : \E e \in probe.docs :
          /\ e.doc_id = probe.batch[i].doc_id
          /\ e # probe.batch[i]
          /\ e \in probe.result.docs

-----------------------------------------------------------------------------
(* search.py *)

\* str.lower and SQL lower()
Lower(t) == [i \in 1..Len(t) |-> CASE t[i] = "H" -> "h" [] t[i] = "I" -> "i" [] OTHER -> t[i]]

\* SQL LIKE: t from position i on matches the pattern p from position j on;
\* % stands for any run of characters and _ for any one character
RECURSIVE LikeFrom(_, _, _, _)
LikeFrom(t, i, p, j) ==
    IF j > Len(p) THEN i > Len(t)
    ELSE IF p[j] = "%" THEN \E k \in i..(Len(t) + 1) : LikeFrom(t, k, p, j + 1)
    ELSE /\ i <= Len(t)
         /\ p[j] = "_" \/ p[j] = t[i]
         /\ LikeFrom(t, i + 1, p, j + 1)

\* lower(text) LIKE '%' || lower(q) || '%'
LikeContains(text, q) == LikeFrom(Lower(text), 1, <<"%">> \o Lower(q) \o <<"%">>, 1)

\* instr(lower(text), lower(q)): the first position of q in text, 0 if none
Instr(text, q) ==
    LET t == Lower(text)
        n == Lower(q)
        at == {i \in 1..(Len(t) - Len(n) + 1) : SubSeq(t, i, i + Len(n) - 1) = n}
    IN  IF at = {} THEN 0 ELSE Min(at)

Letters == {"h", "i", "y", "o", "k", "m", "z"}

\* the terms the index keeps of a text: its lowercased runs of letters
Terms(text) ==
    LET t == Lower(text)
        IsRun(i, j) == /\ i <= j
                       /\ \A k \in i..j : t[k] \in Letters
                       /\ i = 1 \/ t[i - 1] \notin Letters
                       /\ j = Len(t) \/ t[j + 1] \notin Letters
    IN  {SubSeq(t, x[1], x[2]) : x \in {y \in (1..Len(t)) \X (1..Len(t)) : IsRun(y[1], y[2])}}

\* match_bm25(doc_id, q): -1 (SQL NULL) for a document that is not indexed or
\* shares no term with the query, else a score that grows with the number of
\* query terms the indexed text holds
MatchBm25(index, doc_id, q) ==
    LET hits == UNION {Terms(e.text) \cap Terms(q) : e \in {x \in index.entries : x.doc_id = doc_id}}
    IN  IF hits = {} THEN -1 ELSE Cardinality(hits)

\* a role clause that lets every role through
RoleClauseAny(d, include_assistant) == d.role \in {"user", "assistant", NULL}

\* role_clause and kind_clause
RoleClause(d, include_assistant) ==
    \/ d.role = "user"
    \/ include_assistant /\ d.role \in {"assistant", NULL}

KindClause(d, include_internal) ==
    include_internal \/ d.kind \in {"message_content", "message_summary"}

\* event_ts DESC NULLS LAST; timestamp 0 is NULL
TsBefore(a, b) == a.doc.event_ts # 0 /\ (b.doc.event_ts = 0 \/ a.doc.event_ts > b.doc.event_ts)

\* ORDER BY of the ranked query
FtsBefore(sort, a, b) ==
    IF sort = "recent"
    THEN TsBefore(a, b) \/ (a.doc.event_ts = b.doc.event_ts /\ a.score > b.score)
    ELSE a.score > b.score \/ (a.score = b.score /\ TsBefore(a, b))

\* ORDER BY of the substring query
SubstringBefore(sort, a, b) ==
    IF sort = "recent"
    THEN TsBefore(a, b) \/ (a.doc.event_ts = b.doc.event_ts /\ a.match_pos < b.match_pos)
    ELSE a.match_pos < b.match_pos \/ (a.match_pos = b.match_pos /\ TsBefore(a, b))

\* the rows in the order of ORDER BY, rows that tie in any order, cut at LIMIT
Limited(rows, limit, ranked, sort) ==
    LET n == Cardinality(rows)
        Before(a, b) == IF ranked THEN FtsBefore(sort, a, b) ELSE SubstringBefore(sort, a, b)
        sorted == {q \in [1..n -> rows] :
                     /\ \A i \in 1..n, j \in 1..n : i # j => q[i] # q[j]
                     /\ \A i \in 1..n, j \in 1..n : i < j => ~Before(q[j], q[i])}
    IN  {SubSeq(q, 1, Min({limit, n})) : q \in sorted}

\* the rows of docs that pass role_clause and kind_clause
Filtered(docs, include_assistant, include_internal) ==
    {d \in docs : RoleClause(d, include_assistant) /\ KindClause(d, include_internal)}

\* the rows of the ranked query before ORDER BY and LIMIT
FtsRows(con, q, include_assistant, include_internal) ==
    {[doc |-> d, score |-> MatchBm25(con.index, d.doc_id, q), match_pos |-> -1]
       : d \in {f \in Filtered(con.docs, include_assistant, include_internal) :
                  MatchBm25(con.index, f.doc_id, q) # -1}}

\* the rows of the substring query before ORDER BY and LIMIT
SubRows(con, q, include_assistant, include_internal) ==
    {[doc |-> d, score |-> -1, match_pos |-> Instr(d.text, q)]
       : d \in {f \in Filtered(con.docs, include_assistant, include_internal) :
                  LikeContains(f.text, q)}}

\* search on the connection con = [docs, settings, index, writable, loadable,
\* ranked_throws]: the results it can return, each with the error raised or
\* the mode tag, and the settings table it leaves
search(con, query, limit, include_assistant, include_internal, sort) ==
    LET q == Strip(query)
        en == IF is_fts_available(con.settings)
              THEN [settings |-> con.settings, ok |-> TRUE, raised |-> FALSE]
              ELSE try_enable_fts(con.settings, con.loadable, con.writable)
        st == en.settings
        fts_index_ready == st["fts_index_ready"] = "1"
        fts_results == IF ~con.index.built \/ con.ranked_throws
                       THEN {<<>>}
                       ELSE Limited(FtsRows(con, q, include_assistant, include_internal),
                                    limit, TRUE, sort)
        substring == {[raised |-> FALSE, results |-> r, mode |-> "substring", settings |-> st]
                        : r \in Limited(SubRows(con, q, include_assistant, include_internal),
                                        limit, FALSE, sort)}
    IN  IF q = <<>>
        THEN {[raised |-> FALSE, results |-> <<>>,
               mode |-> IF is_fts_available(con.settings) THEN "fts" ELSE "substring",
               settings |-> con.settings]}
        ELSE IF en.raised
        THEN {[raised |-> TRUE, results |-> <<>>, mode |-> NULL, settings |-> st]}
        ELSE IF is_fts_available(st) /\ fts_index_ready
        THEN {[raised |-> FALSE, results |-> r, mode |-> "fts", settings |-> st]
                : r \in fts_results \ {<<>>}}
             \cup (IF <<>> \in fts_results THEN substring ELSE {})
        ELSE substring

MaxLimit == 2

Queries ==
    {<<" ">>, <<"h">>, <<"H", "i">>, <<"o", "k", " ">>, <<"o", "k", " ", "y", "o">>,
     <<"h", "i", " ", "o", "k">>, <<"_">>, <<"z">>, <<"h", "m">>}

\* docs tables as ingestion leaves them
SearchTables ==
    {DocsOfRecords(bs, "a.jsonl", 0, NULL)
       : bs \in {<<>>, <<"u">>, <<"u", "a">>, <<"u", "a", "r">>, <<"m", "u", "r">>,
                 <<"u", "w">>}}

\* the store as a connection finds it.  fts_available is unset only before the
\* first refresh; the ready flag is set once an index was built; the index is
\* missing, or was built over the docs table or over one that has changed since
SearchCons ==
    {c \in [docs : SearchTables,
            settings : [fts_available : {NULL, "0", "1"}, fts_index_ready : {NULL, "0", "1"}],
            index : {NoIndex} \cup {rebuild_fts_index(D) : D \in SearchTables \ {{}}},
            writable : BOOLEAN, loadable : BOOLEAN, ranked_throws : BOOLEAN] :
        /\ c.settings["fts_available"] = NULL =>
               c.docs = {} /\ c.settings["fts_index_ready"] = NULL
        /\ c.settings["fts_index_ready"] = NULL => c.index = NoIndex
        /\ c.index.built =>
               \/ c.index = rebuild_fts_index(c.docs)
               \/ c.index = rebuild_fts_index(DocsOfRecords(<<"u", "a", "r">>, "a.jsonl", 0, NULL))}

InitSearch ==
    /\ fs = [p \in Paths |-> NoFile]
    /\ clock = 0
    /\ store = EmptyTables
    /\ txn = EmptyTables
    /\ settings = [fts_available |-> NULL, fts_index_ready |-> NULL]
    /\ fts_index = NoIndex
    /\ pc = "idle"
    /\ args = NoArgs
    /\ paths = <<>>
    /\ cur = NoCur
    /\ stats = ZeroStats
    /\ outcome = "none"
    /\ quiet = 0
    /\ rewritten = {}
    /\ truncs = {}
    /\ probe \in {[op |-> "search", call |-> c] :
                    c \in [con : SearchCons, query : Queries, limit : 1..MaxLimit,
                           include_assistant : BOOLEAN, include_internal : BOOLEAN,
                           sort : {"relevance", "recent"}]}

ApplySearch ==
    /\ probe.op = "search"
    /\ \E r \in search(probe.call.con, probe.call.query, probe.call.limit,
                       probe.call.include_assistant, probe.call.include_internal,
                       probe.call.sort) :
          probe' = [op |-> "searched", call |-> probe.call, result |-> r]
    /\ UNCHANGED <<fs, clock, store, txn, settings, fts_index, pc, args, paths, cur,
                   stats, outcome, quiet, rewritten, truncs>>

NextSearch == ApplySearch

SpecSearch == InitSearch /\ [][NextSearch]_vars

\* C10: for every query that is not empty, search raises no error and returns
\* its results with the mode tag fts or substring, whatever the state of the
\* index: capability flag not set (also on a connection on which it cannot be
\* enabled), index not marked ready, index missing, ranked query throwing.
C10_SearchNeverRaises ==
    (probe.op = "searched" /\ Strip(probe.call.query) # <<>>) =>
        /\ ~probe.result.raised
        /\ probe.result.mode \in {"fts", "substring"}

-----------------------------------------------------------------------------
(* Mode selection *)

\* a call of search with a query that is not empty has ended
Searched == probe.op = "searched" /\ Strip(probe.call.query) # <<>>

\* the ranked query of the call ran without an error and gave at least one row
RankedGaveRows ==
    /\ probe.call.con.index.built
    /\ ~probe.call.con.ranked_throws
    /\ FtsRows(probe.call.con, Strip(probe.call.query), probe.call.include_assistant,
               probe.call.include_internal) # {}

\* the result of the call is the substring scan, in its order, cut at the limit
SubstringScan ==
    /\ probe.result.mode = "substring"
    /\ probe.result.results
         \in Limited(SubRows(probe.call.con, Strip(probe.call.query),
                             probe.call.include_assistant, probe.call.include_internal),
                     probe.call.limit, FALSE, probe.call.sort)

\* the choice of the mode in the calls that return: ranked exactly when the
\* capability flag search reads is "1", the ready flag is "1" and the ranked
\* query gave rows, else the substring scan
ModeSelectionWhenReturned ==
    (Searched /\ ~probe.result.raised) =>
        IF /\ is_fts_available(probe.result.settings)
           /\ probe.result.settings["fts_index_ready"] = "1"
           /\ RankedGaveRows
        THEN probe.result.mode = "fts"
        ELSE SubstringScan

\* C11: for a query that is not empty, search returns the mode fts only when
\* the capability flag is available, the ready flag is set and the ranked query
\* gave at least one row; in every other case (capability unavailable, index
\* not ready, ranked query threw or gave no row) it returns the substring scan
\* with the mode substring.
C11_ModeSelection ==
    Searched =>
        IF /\ is_fts_available(probe.result.settings)
           /\ probe.result.settings["fts_index_ready"] = "1"
           /\ RankedGaveRows
        THEN probe.result.mode = "fts"
        ELSE ~probe.result.raised /\ SubstringScan

-----------------------------------------------------------------------------
(* What search writes *)

\* C12: a call of search, for any query and any flags, leaves the store as it
\* found it.  search issues no statement on docs, sessions or session_files;
\* the settings table, with the fts_available setting, is the one it can
\* change, so the claim is that the settings after the call are those before.
C12_SearchOnlyReads ==
    probe.op = "searched" => probe.result.settings = probe.call.con.settings

-----------------------------------------------------------------------------
(* Role and kind filters *)

\* C13: with include_assistant = false and include_internal = false, every
\* result of search has the role user and a kind among message_content and
\* message_summary, in the ranked mode and in the substring mode.
C13_RoleKindFilter ==
    (probe.op = "searched" /\ ~probe.call.include_assistant /\ ~probe.call.include_internal) =>
        \A i \in 1..Len(probe.result.results) :
            /\ probe.result.results[i].doc.role = "user"
            /\ probe.result.results[i].doc.kind \in {"message_content", "message_summary"}

\* a ranked search with both flags false returned a row while the table holds
\* a document of another role that the index matches with the query as well
C13_Witness ==
    /\ probe.op = "searched"
    /\ ~probe.call.include_assistant /\ ~probe.call.include_internal
    /\ probe.result.mode = "fts"
    /\ probe.result.results # <<>>
    /\ \E d \in probe.call.con.docs :
          /\ d.role # "user"
          /\ MatchBm25(probe.call.con.index, d.doc_id, Strip(probe.call.query)) # -1

\* the same in the substring mode, where the other document is of an internal kind
SubstringFilterWitness ==
    /\ probe.op = "searched"
    /\ ~probe.call.include_assistant /\ ~probe.call.include_internal
    /\ probe.result.mode = "substring"
    /\ probe.result.results # <<>>
    /\ \E d \in probe.call.con.docs :
          /\ d.kind \notin {"message_content", "message_summary"}
          /\ LikeContains(d.text, Strip(probe.call.query))

-----------------------------------------------------------------------------
(* The ready flag *)

\* the store as the next connection finds it
ConOf(tables, st, index, writable, loadable, ranked_throws) ==
    [docs |-> tables.docs, settings |-> st, index |-> index, writable |-> writable,
     loadable |-> loadable, ranked_throws |-> ranked_throws]

\* no search on the store, whatever its query and connection, returns in the
\* ranked mode; both include flags are set, which lets every document through
NoRankedSearch ==
    \A query \in {q \in Queries : Strip(q) # <<>>}, writable \in BOOLEAN, loadable \in BOOLEAN :
        \A r \in search(ConOf(store, settings, fts_index, writable, loadable, FALSE),
                        query, MaxLimit, TRUE, TRUE, "relevance") :
            r.mode # "fts"

\* C14: when a run that inserted at least one document returns without having
\* tried the rebuild, because reindex was false or the capability was not
\* available, the fts_index_ready setting is not "1", and no search on the
\* store it leaves returns in the ranked mode.
C14_FlagCleared ==
    [][(pc = "post" /\ pc' = "idle" /\ outcome' = "returned" /\ stats.docs_inserted > 0
          /\ (~args.reindex \/ ~args.fts_ok)) =>
        /\ settings'["fts_index_ready"] # "1"
        /\ NoRankedSearch'
      ]_vars

\* such a run has returned on a store whose index had been built and marked
\* ready by an earlier run
C14_Witness ==
    /\ pc = "idle"
    /\ outcome = "returned"
    /\ stats.docs_inserted > 0
    /\ ~args.reindex \/ ~args.fts_ok
    /\ fts_index.built
    /\ settings["fts_index_ready"] = "0"
    /\ \E d \in store.docs : \A e \in fts_index.entries : e.doc_id # d.doc_id

-----------------------------------------------------------------------------
(* Order of the substring results *)

\* the position of the first case-insensitive occurrence of the query of the
\* call in the text of a result row; 0 when the text does not hold the query
FirstMatch(row) == Instr(row.doc.text, Strip(probe.call.query))

\* match position ascending, nulls last: a row without an occurrence has no
\* position
PosBefore(a, b) == FirstMatch(a) # 0 /\ (FirstMatch(b) = 0 \/ FirstMatch(a) < FirstMatch(b))

\* a comes strictly before b in the order claimed for the sort of the call
ClaimedBefore(a, b) ==
    IF probe.call.sort = "recent"
    THEN TsBefore(a, b) \/ (a.doc.event_ts = b.doc.event_ts /\ PosBefore(a, b))
    ELSE PosBefore(a, b) \/ (FirstMatch(a) = FirstMatch(b) /\ TsBefore(a, b))

InClaimedOrder(results) ==
    \A i \in 1..Len(results), j \in 1..Len(results) :
        i < j => ~ClaimedBefore(results[j], results[i])

\* C15: in substring mode the results are ordered by the position of the first
\* case-insensitive match ascending (nulls last), then by event timestamp
\* descending; with sort = recent by event timestamp descending, then by the
\* match position.
C15_SubstringOrder ==
    (Searched /\ ~probe.result.raised /\ probe.result.mode = "substring") =>
        InClaimedOrder(probe.result.results)

\* the claimed order holds in every substring result whose rows all hold the
\* query literally
SubstringOrderOfLiteralMatches ==
    (Searched /\ ~probe.result.raised /\ probe.result.mode = "substring"
       /\ \A i \in 1..Len(probe.result.results) : FirstMatch(probe.result.results[i]) # 0) =>
        InClaimedOrder(probe.result.results)

\* two rows that hold the query at different positions came back, the one with
\* the later position first because it is the more recent
LiteralOrderWitness ==
    /\ Searched /\ ~probe.result.raised /\ probe.result.mode = "substring"
    /\ probe.call.sort = "recent"
    /\ Len(probe.result.results) = 2
    /\ FirstMatch(probe.result.results[2]) # 0
    /\ FirstMatch(probe.result.results[1]) > FirstMatch(probe.result.results[2])

-----------------------------------------------------------------------------
(* _upsert_session on its own *)

MaxUpserts == 3

\* session_meta payloads of one session: with or without a timestamp of their
\* own, a working directory, a source
ProbeMetas ==
    {[id |-> "s1", timestamp |-> t,
      attrs |-> [NoAttrs EXCEPT !["cwd"] = c, !["source"] = o]]
       : t \in {0, 1, 3}, c \in {NULL, "/x", "/y"}, o \in {NULL, "cli"}}

\* the timestamp of the record that carries the payload; 0 when it has none
ProbeEventTs == {0, 2}

InitUpsert ==
    /\ fs = [p \in Paths |-> NoFile]
    /\ clock = 0
    /\ store = EmptyTables
    /\ txn = EmptyTables
    /\ settings = [fts_available |-> NULL, fts_index_ready |-> NULL]
    /\ fts_index = NoIndex
    /\ pc = "idle"
    /\ args = NoArgs
    /\ paths = <<>>
    /\ cur = NoCur
    /\ stats = ZeroStats
    /\ outcome = "none"
    /\ quiet = 0
    /\ rewritten = {}
    /\ truncs = {}
    /\ probe = [op |-> "upsert", sessions |-> << >>, before |-> << >>, calls |-> <<>>]

ApplyUpsert ==
    /\ probe.op = "upsert"
    /\ Len(probe.calls) < MaxUpserts
    /\ \E meta \in ProbeMetas, event_ts \in ProbeEventTs :
          probe' = [op |-> "upsert",
                    sessions |-> UpsertSession(probe.sessions, meta, event_ts),
                    before |-> probe.sessions,
                    calls |-> Append(probe.calls, [meta |-> meta, event_ts |-> event_ts])]
    /\ UNCHANGED <<fs, clock, store, txn, settings, fts_index, pc, args, paths, cur,
                   stats, outcome, quiet, rewritten, truncs>>

NextUpsert == ApplyUpsert

SpecUpsert == InitUpsert /\ [][NextUpsert]_vars

\* the last call of _upsert_session met a stored row of its session
Merged ==
    /\ probe.op = "upsert"
    /\ probe.calls # <<>>
    /\ probe.calls[Len(probe.calls)].meta.id \in DOMAIN probe.before

LastMeta == probe.calls[Len(probe.calls)].meta

\* C16: when a session_meta record is merged into a stored session, each of
\* cwd, originator, cli_version, source, model_provider and instructions keeps
\* its stored value if that is not null, and takes the new value only when the
\* stored value is null.
C16_MergeKeepsExisting ==
    Merged =>
        \A k \in SessFields :
            probe.sessions[LastMeta.id].attrs[k] =
                IF probe.before[LastMeta.id].attrs[k] # NULL
                THEN probe.before[LastMeta.id].attrs[k]
                ELSE LastMeta.attrs[k]

-----------------------------------------------------------------------------
(* first_ts and last_ts *)

\* the timestamp of a call: the metadata's own, else the record's; 0 is null
ResolvedTs(call) == IF call.meta.timestamp # 0 THEN call.meta.timestamp ELSE call.event_ts

\* the non-null timestamps seen in the calls so far
SeenTs == {ResolvedTs(probe.calls[i]) : i \in 1..Len(probe.calls)} \ {0}

\* C17: after any sequence of upserts of one session, first_ts is the least
\* and last_ts the greatest of the non-null timestamps seen (the metadata's
\* own, else the record's), and null if there was none; an upsert with a null
\* timestamp changes neither; first_ts never increases and last_ts never
\* decreases; first_ts <= last_ts when both are set.
C17_FirstLastTs ==
    (probe.op = "upsert" /\ probe.calls # <<>>) =>
        LET row == probe.sessions["s1"]
            last == probe.calls[Len(probe.calls)]
        IN  /\ row.first_ts = IF SeenTs = {} THEN 0 ELSE Min(SeenTs)
            /\ row.last_ts = IF SeenTs = {} THEN 0 ELSE Max(SeenTs)
            /\ (row.first_ts # 0 /\ row.last_ts # 0) => row.first_ts <= row.last_ts
            /\ Merged =>
                 LET old == probe.before["s1"]
                 IN  /\ ResolvedTs(last) = 0 =>
                            row.first_ts = old.first_ts /\ row.last_ts = old.last_ts
                     /\ old.first_ts # 0 => (row.first_ts # 0 /\ row.first_ts <= old.first_ts)
                     /\ row.last_ts >= old.last_ts

\* three upserts: one with a timestamp, one with none at all, one that falls
\* back on the timestamp of its record, which becomes the new first_ts
C17_Witness ==
    /\ probe.op = "upsert"
    /\ Len(probe.calls) = 3
    /\ ResolvedTs(probe.calls[1]) = 3
    /\ ResolvedTs(probe.calls[2]) = 0
    /\ probe.calls[3].meta.timestamp = 0 /\ probe.calls[3].event_ts = 2
    /\ probe.sessions["s1"].first_ts = 2
    /\ probe.sessions["s1"].last_ts = 3

-----------------------------------------------------------------------------
(* _make_snippet *)

\* " ".join(text.split()): the words of the text with one space between them
Collapse(text) ==
    LET keep == {i \in 1..Len(text) :
                   \/ text[i] \notin Whitespace
                   \/ /\ i > 1
                      /\ text[i - 1] \notin Whitespace
                      /\ \E j \in (i + 1)..Len(text) : text[j] \notin Whitespace}
        Nth(k) == CHOOSE i \in keep : Cardinality({j \in keep : j <= i}) = k
    IN  [k \in 1..Cardinality(keep) |->
            IF text[Nth(k)] \in Whitespace THEN " " ELSE text[Nth(k)]]

\* str.split(): the maximal runs of characters that are not whitespace
Words(t) ==
    LET IsWord(i, j) == /\ i <= j
                        /\ \A k \in i..j : t[k] \notin Whitespace
                        /\ i = 1 \/ t[i - 1] \in Whitespace
                        /\ j = Len(t) \/ t[j + 1] \in Whitespace
    IN  {SubSeq(t, x[1], x[2]) : x \in {y \in (1..Len(t)) \X (1..Len(t)) : IsWord(y[1], y[2])}}

\* the needles of the snippet: the stripped query and its words of two or more
\* characters
SnippetNeedles(q_raw) == {q_raw} \cup {w \in Words(q_raw) : Len(w) >= 2}

Ellipsis == <<"...">>

\* _make_snippet(text, query, max_len); positions count from 0 as in the code
make_snippet(text, query, max_len) ==
    LET t == Collapse(text)
        q_raw == Strip(query)
        found == {Instr(t, n) - 1 : n \in SnippetNeedles(q_raw)} \ {-1}
        idx == IF found = {} THEN -1 ELSE Min(found)
        start == Max({0, idx - (max_len \div 3)})
        end == Min({Len(t), start + max_len})
    IN  IF Len(t) <= max_len THEN t
        ELSE IF q_raw = <<>> \/ idx < 0 THEN SubSeq(t, 1, max_len - 1) \o Ellipsis
        ELSE (IF start > 0 THEN Ellipsis ELSE <<>>)
             \o SubSeq(t, start + 1, end)
             \o (IF end < Len(t) THEN Ellipsis ELSE <<>>)

MaxTextLen == 7

SnippetChars == {"h", "i", " "}

\* every text of up to n characters
TextsUpTo(n) == UNION {[1..k -> SnippetChars] : k \in 0..n}

SnippetQueries == {<<"h", " ", "i", "i">>, <<"i", "i">>, <<"H">>, <<" ", "i", " ">>, <<" ">>,
                   <<"h", "h", "h">>, <<"i", "h", "i", "h", "i">>}

\* max_len, scaled down from the default of 180
SnippetLens == {5, 6}

InitSnippet ==
    /\ fs = [p \in Paths |-> NoFile]
    /\ clock = 0
    /\ store = EmptyTables
    /\ txn = EmptyTables
    /\ settings = [fts_available |-> NULL, fts_index_ready |-> NULL]
    /\ fts_index = NoIndex
    /\ pc = "idle"
    /\ args = NoArgs
    /\ paths = <<>>
    /\ cur = NoCur
    /\ stats = ZeroStats
    /\ outcome = "none"
    /\ quiet = 0
    /\ rewritten = {}
    /\ truncs = {}
    /\ probe \in {[op |-> "make_snippet", text |-> t, query |-> q, max_len |-> m] :
                    t \in TextsUpTo(MaxTextLen), q \in SnippetQueries, m \in SnippetLens}

ApplySnippet ==
    /\ probe.op = "make_snippet"
    /\ probe' = [op |-> "snippet", text |-> probe.text, query |-> probe.query,
                 max_len |-> probe.max_len,
                 result |-> make_snippet(probe.text, probe.query, probe.max_len)]
    /\ UNCHANGED <<fs, clock, store, txn, settings, fts_index, pc, args, paths, cur,
                   stats, outcome, quiet, rewritten, truncs>>

NextSnippet == ApplySnippet

SpecSnippet == InitSnippet /\ [][NextSnippet]_vars

\* C18: when the whitespace-collapsed text is longer than max_len and holds
\* the query (case-insensitively), the snippet holds the query as a
\* case-insensitive substring, for every query, also one of several words
\* whose words occur elsewhere in the text.
C18_SnippetHoldsQuery ==
    (/\ probe.op = "snippet"
     /\ Strip(probe.query) # <<>>
     /\ Len(Collapse(probe.text)) > probe.max_len
     /\ Instr(Collapse(probe.text), Strip(probe.query)) # 0) =>
        Instr(probe.result, Strip(probe.query)) # 0

\* the snippet holds the query whenever the query is one word that fits in
\* the part of the window that follows the match
SnippetHoldsOneWordQuery ==
    (/\ probe.op = "snippet"
     /\ Cardinality(Words(probe.query)) = 1
     /\ Len(Strip(probe.query)) <= probe.max_len - (probe.max_len \div 3)
     /\ Len(Collapse(probe.text)) > probe.max_len
     /\ Instr(Collapse(probe.text), Strip(probe.query)) # 0) =>
        Instr(probe.result, Strip(probe.query)) # 0

-----------------------------------------------------------------------------
(* extract_context_lines *)

\* str.splitlines(): the lines of the text without their line ends; a final
\* line end opens no further line
RECURSIVE SplitLines(_)
SplitLines(t) ==
    IF t = <<>> THEN <<>>
    ELSE LET nl == {i \in 1..Len(t) : t[i] = "\n"}
         IN  IF nl = {} THEN <<t>>
             ELSE <<SubSeq(t, 1, Min(nl) - 1)>> \o SplitLines(SubSeq(t, Min(nl) + 1, Len(t)))

\* "\n".join(lines)
RECURSIVE JoinLines(_)
JoinLines(lines) ==
    IF lines = <<>> THEN <<>>
    ELSE IF Len(lines) = 1 THEN lines[1]
    ELSE lines[1] \o <<"\n">> \o JoinLines(Tail(lines))

\* _normalize_needles: the stripped query and its words of two or more
\* characters, one of each up to case; only the least position of a needle in
\* a line is used, so their order does not matter
NormalizeNeedles(query) ==
    IF Strip(query) = <<>> THEN {}
    ELSE {Lower(n) : n \in SnippetNeedles(Strip(query))}

\* the least position (from 0) of a needle in the line, -1 if it holds none
NeedlePos(line, needles) ==
    LET at == {Instr(line, n) - 1 : n \in needles} \ {-1}
    IN  IF at = {} THEN -1 ELSE Min(at)

\* a loop in which a line also replaces the best one when its least position
\* is the same
RECURSIVE BestLineTiesLast(_, _, _, _, _)
BestLineTiesLast(lines, needles, i, best_i, best_pos) ==
    IF i > Len(lines) THEN best_i
    ELSE LET pos == NeedlePos(lines[i], needles)
         IN  IF pos >= 0 /\ (best_i = 0 \/ pos <= best_pos)
             THEN BestLineTiesLast(lines, needles, i + 1, i, pos)
             ELSE BestLineTiesLast(lines, needles, i + 1, best_i, best_pos)

\* the loop over the lines: a line replaces the best one only when its least
\* position is smaller; best_i is 0 while no line holds a needle
RECURSIVE BestLine(_, _, _, _, _)
BestLine(lines, needles, i, best_i, best_pos) ==
    IF i > Len(lines) THEN best_i
    ELSE LET pos == NeedlePos(lines[i], needles)
         IN  IF pos >= 0 /\ (best_i = 0 \/ pos < best_pos)
             THEN BestLine(lines, needles, i + 1, i, pos)
             ELSE BestLine(lines, needles, i + 1, best_i, best_pos)

\* extract_context_lines(text, query, n); lines count from 1
extract_context_lines(text, query, n) ==
    LET lines == SplitLines(text)
        needles == NormalizeNeedles(query)
        best_i == BestLine(lines, needles, 1, 0, 0)
        head == JoinLines(SubSeq(lines, 1, Min({Len(lines), 2 * n + 1})))
    IN  IF n <= 0 \/ Len(lines) <= 1 THEN make_snippet(text, query, 180)
        ELSE IF needles = {} \/ best_i = 0 THEN head
        ELSE JoinLines(SubSeq(lines, Max({1, best_i - n}), Min({Len(lines), best_i + n})))

MaxContext == 2

ContextChars == {"h", "i", "\n"}

ContextTexts == UNION {[1..k -> ContextChars] : k \in 0..MaxTextLen}

ContextQueries == {<<"i">>, <<"h", "i">>, <<"H">>, <<"i", "h", " ", "h", "h">>, <<" ">>}

InitContext ==
    /\ fs = [p \in Paths |-> NoFile]
    /\ clock = 0
    /\ store = EmptyTables
    /\ txn = EmptyTables
    /\ settings = [fts_available |-> NULL, fts_index_ready |-> NULL]
    /\ fts_index = NoIndex
    /\ pc = "idle"
    /\ args = NoArgs
    /\ paths = <<>>
    /\ cur = NoCur
    /\ stats = ZeroStats
    /\ outcome = "none"
    /\ quiet = 0
    /\ rewritten = {}
    /\ truncs = {}
    /\ probe \in {[op |-> "extract_context_lines", text |-> t, query |-> q, n |-> n] :
                    t \in ContextTexts, q \in ContextQueries, n \in 0..MaxContext}

ApplyContext ==
    /\ probe.op = "extract_context_lines"
    /\ probe' = [op |-> "context", text |-> probe.text, query |-> probe.query, n |-> probe.n,
                 result |-> extract_context_lines(probe.text, probe.query, probe.n)]
    /\ UNCHANGED <<fs, clock, store, txn, settings, fts_index, pc, args, paths, cur,
                   stats, outcome, quiet, rewritten, truncs>>

NextContext == ApplyContext

SpecContext == InitContext /\ [][NextContext]_vars

\* the lines of the text of the call that hold a needle, each with the least
\* position of a needle in it
NeedleLines ==
    {i \in 1..Len(SplitLines(probe.text)) :
        NeedlePos(SplitLines(probe.text)[i], NormalizeNeedles(probe.query)) >= 0}

PosIn(i) == NeedlePos(SplitLines(probe.text)[i], NormalizeNeedles(probe.query))

\* the line with the earliest needle occurrence, the lowest such line if
\* several lines have it at the same position
ClaimedLine ==
    CHOOSE i \in NeedleLines :
        \A j \in NeedleLines : PosIn(i) < PosIn(j) \/ (PosIn(i) = PosIn(j) /\ i <= j)

NewlinesIn(t) == Cardinality({i \in 1..Len(t) : t[i] = "\n"})

\* C19: for a text of two or more lines and n > 0, extract_context_lines
\* returns the lines from n before to n after the line with the earliest
\* needle occurrence (the lowest line among ties), clipped to the first and
\* last line and joined with newlines; the result has at most 2n+1 lines, and
\* holds a line with a needle whenever the text has one.
C19_ContextWindow ==
    (probe.op = "context" /\ probe.n > 0 /\ Len(SplitLines(probe.text)) >= 2) =>
        LET lines == SplitLines(probe.text)
        IN  /\ NewlinesIn(probe.result) + 1 <= 2 * probe.n + 1
            /\ NeedleLines # {} =>
                 /\ probe.result =
                        JoinLines(SubSeq(lines, Max({1, ClaimedLine - probe.n}),
                                         Min({Len(lines), ClaimedLine + probe.n})))
                 /\ \E k \in 1..Len(SplitLines(probe.result)) :
                        NeedlePos(SplitLines(probe.result)[k],
                                  NormalizeNeedles(probe.query)) >= 0

\* four lines, the third and the fourth hold the needle at the same position:
\* with n = 1 the result is the second to the fourth line
C19_Witness ==
    /\ probe.op = "context"
    /\ probe.n = 1
    /\ Len(SplitLines(probe.text)) = 4
    /\ NeedleLines = {3, 4}
    /\ PosIn(3) = PosIn(4)
    /\ probe.result = JoinLines(SubSeq(SplitLines(probe.text), 2, 4))

-----------------------------------------------------------------------------
(* _open_db_ro *)

\* range(40)
OpenAttempts == 40

\* what connect_read_only does at one attempt: it returns a connection, it
\* raises "Conflicting lock is held", or it raises another error
OpenOutcomes == {"ok", "lock", "other"}

\* an except branch that retries after every error
RetryAfterAny(result) == result # "ok"

\* lines 38-42: the error is swallowed and the loop goes on only when its
\* message holds "Conflicting lock is held"
RetryAfter(result) == result = "lock"

InitOpen ==
    /\ fs = [p \in Paths |-> NoFile]
    /\ clock = 0
    /\ store = EmptyTables
    /\ txn = EmptyTables
    /\ settings = [fts_available |-> NULL, fts_index_ready |-> NULL]
    /\ fts_index = NoIndex
    /\ pc = "idle"
    /\ args = NoArgs
    /\ paths = <<>>
    /\ cur = NoCur
    /\ stats = ZeroStats
    /\ outcome = "none"
    /\ quiet = 0
    /\ rewritten = {}
    /\ truncs = {}
    /\ probe \in {[op |-> "open_db_ro", exists |-> e, status |-> "start", attempts |-> 0,
                   locks |-> 0, last |-> "none"] : e \in BOOLEAN}

\* lines 27-30: no database file, exit with code 1
CheckExists ==
    /\ probe.op = "open_db_ro"
    /\ probe.status = "start"
    /\ probe' = [probe EXCEPT !.status = IF probe.exists THEN "trying" ELSE "not_found"]
    /\ UNCHANGED <<fs, clock, store, txn, settings, fts_index, pc, args, paths, cur,
                   stats, outcome, quiet, rewritten, truncs>>

\* lines 34-42: one pass of the loop
Attempt(result) ==
    /\ probe.op = "open_db_ro"
    /\ probe.status = "trying"
    /\ probe.attempts < OpenAttempts
    /\ probe' = [probe EXCEPT
                   !.attempts = @ + 1,
                   !.locks = IF result = "lock" THEN @ + 1 ELSE @,
                   !.last = result,
                   !.status = IF result = "ok" THEN "connected"
                              ELSE IF RetryAfter(result) THEN "trying"
                              ELSE "raised"]
    /\ UNCHANGED <<fs, clock, store, txn, settings, fts_index, pc, args, paths, cur,
                   stats, outcome, quiet, rewritten, truncs>>

\* lines 43-44: the loop is over, report busy and exit with code 1
GiveUp ==
    /\ probe.op = "open_db_ro"
    /\ probe.status = "trying"
    /\ probe.attempts >= OpenAttempts
    /\ probe' = [probe EXCEPT !.status = "busy"]
    /\ UNCHANGED <<fs, clock, store, txn, settings, fts_index, pc, args, paths, cur,
                   stats, outcome, quiet, rewritten, truncs>>

NextOpen ==
    \/ CheckExists
    \/ \E result \in OpenOutcomes : Attempt(result)
    \/ GiveUp

\* the process runs on: a sleep of 0.1 s and an attempt to connect return
SpecOpen == InitOpen /\ [][NextOpen]_vars /\ WF_vars(NextOpen)

OpenEnded == probe.status \in {"connected", "raised", "busy", "not_found"}

\* what holds at every point of _open_db_ro
OpenSafe ==
    /\ probe.attempts <= OpenAttempts
    /\ probe.status = "trying" => probe.locks = probe.attempts
    /\ probe.status = "connected" => (probe.last = "ok" /\ probe.locks = probe.attempts - 1)
    /\ probe.status = "raised" => (probe.last = "other" /\ probe.locks = probe.attempts - 1)
    /\ probe.status = "busy" => (probe.attempts = OpenAttempts /\ probe.locks = OpenAttempts)
    /\ probe.status = "not_found" => probe.attempts = 0

\* C20: _open_db_ro always ends; it makes at most 40 attempts, a further one
\* only after a lock conflict; it returns the connection at the first attempt
\* that succeeds, raises any other error at the attempt that met it, and
\* reports busy only after all 40 attempts failed on the lock.
C20_OpenTerminates == []OpenSafe /\ <>OpenEnded

\* the budget is used up: 40 attempts, each failed on the lock, busy reported
C20_Witness ==
    /\ probe.op = "open_db_ro"
    /\ probe.status = "busy"
    /\ probe.attempts = OpenAttempts
    /\ probe.locks = OpenAttempts

-----------------------------------------------------------------------------
(* render.py: find_match_spans *)

\* the characters of the texts to highlight: "D" stands for U+0130, the
\* capital I with a dot above, and "." for U+0307, the combining dot above
SpanChars == {"a", "A", "b", "D"}

\* str.lower() of one character: it gives one character, except for U+0130,
\* whose lowercase is the two characters i and U+0307
LowerChar(c) ==
    CASE c = "A" -> <<"a">>
      [] c = "B" -> <<"b">>
      [] c = "D" -> <<"i", ".">>
      [] OTHER -> <<c>>

\* str.lower()
RECURSIVE PyLower(_)
PyLower(t) == IF t = <<>> THEN <<>> ELSE LowerChar(Head(t)) \o PyLower(Tail(t))

\* h.find(n, start): the least position (from 0) at or after start where n
\* begins in h, -1 if there is none
Find(h, n, start) ==
    LET at == {i \in start..(Len(h) - Len(n)) : SubSeq(h, i + 1, i + Len(n)) = n}
    IN  IF at = {} THEN -1 ELSE Min(at)

\* lines 79-85: the spans of one needle; the scan goes on after the match
RECURSIVE Scan(_, _, _, _)
Scan(h, n, needle_len, start) ==
    LET idx == Find(h, n, start)
    IN  IF idx < 0 THEN {}
        ELSE {<<idx, idx + needle_len>>}
             \cup Scan(h, n, needle_len, idx + Max({1, needle_len}))

\* lines 69-85: the spans of all needles; the empty needle is passed over
AllSpans(text, needles) ==
    UNION {Scan(PyLower(text), PyLower(needles[k]), Len(needles[k]), 0)
           : k \in {j \in 1..Len(needles) : needles[j] # <<>>}}

SpanBefore(x, y) == x[1] < y[1] \/ (x[1] = y[1] /\ x[2] < y[2])

\* line 90: spans.sort(); equal spans merge into one in any case
RECURSIVE SortSpans(_)
SortSpans(S) ==
    IF S = {} THEN <<>>
    ELSE LET x == CHOOSE y \in S : \A z \in S \ {y} : SpanBefore(y, z)
         IN  <<x>> \o SortSpans(S \ {x})

\* lines 91-100: a span that starts at or before the end of the current one
\* is merged into it
RECURSIVE MergeSpans(_, _, _, _)
MergeSpans(spans, i, cur_s, cur_e) ==
    IF i > Len(spans) THEN << <<cur_s, cur_e>> >>
    ELSE IF spans[i][1] <= cur_e
    THEN MergeSpans(spans, i + 1, cur_s, Max({cur_e, spans[i][2]}))
    ELSE << <<cur_s, cur_e>> >> \o MergeSpans(spans, i + 1, spans[i][1], spans[i][2])

find_match_spans(haystack, needles) ==
    LET spans == SortSpans(AllSpans(haystack, needles))
    IN  IF haystack = <<>> \/ spans = <<>> THEN <<>>
        ELSE MergeSpans(spans, 2, spans[1][1], spans[1][2])

MaxHayLen == 4

Haystacks == UNION {[1..k -> SpanChars] : k \in 0..MaxHayLen}

SpanNeedles == {<<>>, <<"a">>, <<"b">>, <<"a", "b">>, <<"a", "a">>, <<"B", "a">>, <<"D">>}

\* the lists of up to two needles
NeedleLists == {<<>>} \cup {<<n>> : n \in SpanNeedles}
               \cup {<<n, m>> : n \in SpanNeedles, m \in SpanNeedles}

InitSpans ==
    /\ fs = [p \in Paths |-> NoFile]
    /\ clock = 0
    /\ store = EmptyTables
    /\ txn = EmptyTables
    /\ settings = [fts_available |-> NULL, fts_index_ready |-> NULL]
    /\ fts_index = NoIndex
    /\ pc = "idle"
    /\ args = NoArgs
    /\ paths = <<>>
    /\ cur = NoCur
    /\ stats = ZeroStats
    /\ outcome = "none"
    /\ quiet = 0
    /\ rewritten = {}
    /\ truncs = {}
    /\ probe \in {[op |-> "find_match_spans", text |-> t, needles |-> ns] :
                    t \in Haystacks, ns \in NeedleLists}

ApplySpans ==
    /\ probe.op = "find_match_spans"
    /\ probe' = [op |-> "spans", text |-> probe.text, needles |-> probe.needles,
                 result |-> find_match_spans(probe.text, probe.needles)]
    /\ UNCHANGED <<fs, clock, store, txn, settings, fts_index, pc, args, paths, cur,
                   stats, outcome, quiet, rewritten, truncs>>

NextSpans == ApplySpans

SpecSpans == InitSpans /\ [][NextSpans]_vars

\* the needle occurs in the text at position i (from 0), the case of the
\* letters set aside
OccursAt(text, needle, i) ==
    /\ needle # <<>>
    /\ i + Len(needle) <= Len(text)
    /\ PyLower(SubSeq(text, i + 1, i + Len(needle))) = PyLower(needle)

\* the position lies inside an occurrence of some needle in the text
InOccurrence(text, needles, pos) ==
    \E k \in 1..Len(needles) : \E i \in 0..pos :
        OccursAt(text, needles[k], i) /\ pos < i + Len(needles[k])

\* the spans are in the order of their starts, and each ends before the next
\* one starts
SortedDisjoint(spans) ==
    /\ \A k \in 1..Len(spans) : spans[k][1] < spans[k][2]
    /\ \A k \in 1..(Len(spans) - 1) : spans[k][2] < spans[k + 1][1]

SpansSound(text, needles, spans) ==
    \A k \in 1..Len(spans) : \A pos \in spans[k][1]..(spans[k][2] - 1) :
        InOccurrence(text, needles, pos)

\* C21: the spans find_match_spans returns are sorted by start and pairwise
\* disjoint (overlapping or touching ones merged), and every position of a
\* returned span lies inside a case-insensitive occurrence of some needle in
\* the text.
C21_MatchSpans ==
    probe.op = "spans" =>
        /\ SortedDisjoint(probe.result)
        /\ SpansSound(probe.text, probe.needles, probe.result)

HasDotted(t) == \E i \in 1..Len(t) : t[i] = "D"

\* for a text and needles without U+0130: the spans are sorted, disjoint and
\* sound, and the first occurrence of every needle is covered by a span
MatchSpansOfPlainText ==
    (/\ probe.op = "spans"
     /\ ~HasDotted(probe.text)
     /\ \A k \in 1..Len(probe.needles) : ~HasDotted(probe.needles[k])) =>
        /\ SortedDisjoint(probe.result)
        /\ SpansSound(probe.text, probe.needles, probe.result)
        /\ \A k \in 1..Len(probe.needles) : \A i \in 0..Len(probe.text) :
              (/\ OccursAt(probe.text, probe.needles[k], i)
               /\ \A j \in 0..(i - 1) : ~OccursAt(probe.text, probe.needles[k], j)) =>
                  \E s \in 1..Len(probe.result) :
                      /\ probe.result[s][1] <= i
                      /\ i + Len(probe.needles[k]) <= probe.result[s][2]

\* two touching occurrences were merged into one span
MergedSpansWitness ==
    /\ probe.op = "spans"
    /\ probe.text = <<"a", "b", "A", "b">>
    /\ probe.needles = << <<"a", "b">>, <<"B", "a">> >>
    /\ probe.result = << <<0, 4>> >>

-----------------------------------------------------------------------------
(* Lines that are not valid UTF-8 *)

\* what the writer appends to a.jsonl: whole records, a record one of whose
\* strings holds an invalid byte, a line that is an invalid byte
EncChunks == {Rec("m"), Rec("u"), Rec("x"), <<"X", "\n">>}

WriteEnc ==
    /\ pc = "idle"
    /\ \E chunk \in EncChunks : AppendChunk("a.jsonl", chunk)

NextEnc ==
    \/ WriteEnc
    \/ \E full \in BOOLEAN : Start(full, TRUE, TRUE)
    \/ BeginFile
    \/ TailFile
    \/ Commit
    \/ Raise
    \/ Kill
    \/ Finish(TRUE)

SpecEnc == Init /\ [][NextEnc]_vars

InvalidBytes == {"x", "X"}

\* the byte positions (from 0), at or after off, where a line of c starts
LineStartsFrom(c, off) == {off} \cup {j \in (off + 1)..(Len(c) - 1) : c[j] = "\n"}

\* the line of c that starts at byte position s holds a byte that is not
\* valid UTF-8
InvalidLineAt(c, s) == \E j \in (s + 1)..LineEnd(c, s) : c[j] \in InvalidBytes

\* the starts of the lines at or after off that are not valid UTF-8
InvalidLinesFrom(c, off) == {s \in LineStartsFrom(c, off) : InvalidLineAt(c, s)}

\* the number the run gives the line that starts at byte position s, when it
\* starts to read at position off after line_no lines
LineNoAt(c, off, line_no, s) ==
    line_no + Cardinality({j \in (off + 1)..s : c[j] = "\n"}) + 1

\* at a tail step: the run stores the cursor at or before the first line that
\* is not valid UTF-8, and inserts no document of that line or a later one
StopsAtInvalidLine ==
    LET p == cur.path
        c == fs[p].content
        bad == InvalidLinesFrom(c, cur.last_offset)
        s == Min(bad)
    IN  (TailStep /\ cur.last_offset < Len(c) /\ bad # {}) =>
            /\ txn'.session_files[p].last_offset <= s
            /\ \A d \in txn'.docs \ txn.docs :
                  d.line_no < LineNoAt(c, cur.last_offset, cur.last_line_no, s)

\* C22: a line whose bytes are not valid UTF-8 stops the processing of its
\* file for the run: the run produces no document from that line or from a
\* later line of the file, and the cursor it stores is at the last known good
\* position before that line.
C22_InvalidEncodingStops == [][StopsAtInvalidLine]_vars

\* the same for a file whose invalid bytes all lie outside the strings of its
\* records: such a line is no valid JSON after decoding, and the run stops
InvalidByteOutsideStringStops ==
    [][(/\ pc = "tail"
        /\ \A j \in 1..Len(fs[cur.path].content) : fs[cur.path].content[j] # "x")
          => StopsAtInvalidLine]_vars

\* a run stopped at a line that is an invalid byte, after a record it read
StoppedAtInvalidByte ==
    /\ pc = "loop"
    /\ cur.path = "a.jsonl"
    /\ fs["a.jsonl"].content = Rec("u") \o <<"X", "\n">> \o Rec("u")
    /\ txn.session_files["a.jsonl"].last_offset = 4
    /\ Cardinality(txn.docs) = 1

-----------------------------------------------------------------------------
(* Unparseable lines *)

\* the text of the line of c that starts at byte position s
LineText(c, s) == Strip(Decode(SubSeq(c, s + 1, LineEnd(c, s))))

\* the line is not blank and is not JSON: neither a record nor a number
Unparseable(line) ==
    /\ line # <<>>
    /\ ~(Len(line) = 3 /\ line[1] = "{" /\ line[3] = "}" /\ line[2] \in Bodies)
    /\ \E i \in 1..Len(line) : line[i] \notin Digits

\* the starts of the unparseable lines of c at or after off
UnparseableFrom(c, off) ==
    {s \in LineStartsFrom(c, off) : s < Len(c) /\ Unparseable(LineText(c, s))}

\* at a tail step: between the cursor and its first unparseable line the file
\* holds whole records and nothing else
RecordsThenUnparseable(p) ==
    LET c == fs[p].content
        bad == UnparseableFrom(c, cur.last_offset)
    IN  /\ cur.last_offset < Len(c)
        /\ bad # {}
        /\ RecordsAfter(SubSeq(c, 1, Min(bad)), cur.last_offset) # <<"?">>

\* C23: an unparseable line stops only its file.  The run inserts the
\* documents of the records it read before that line, stores the cursor at
\* the start of that line and goes on with the next file; the commit makes
\* this durable, and the run returns its statistics with the store as
\* committed.
C23_UnparseableStopsOnlyFile ==
    [][/\ (TailStep /\ RecordsThenUnparseable(cur.path)) =>
            LET p == cur.path
                c == fs[p].content
                s == Min(UnparseableFrom(c, cur.last_offset))
                bs == RecordsAfter(SubSeq(c, 1, s), cur.last_offset)
                new == DocsOfRecords(bs, p, cur.last_line_no, cur.known_session_id)
            IN  /\ new \subseteq txn'.docs
                /\ txn.docs \subseteq txn'.docs
                /\ txn'.session_files[p].last_offset = s
                /\ txn'.session_files[p].last_line_no = cur.last_line_no + Len(bs)
                /\ stats'.docs_inserted = stats.docs_inserted + Cardinality(new)
                /\ paths' = Tail(paths)
                /\ outcome' = "running"
       /\ (pc = "loop" /\ pc' = "post") => (store' = txn /\ outcome' = "running")
       /\ (pc = "post" /\ outcome' = "returned") => (store' = store /\ stats'.files_scanned = stats.files_scanned /\ stats'.docs_inserted = stats.docs_inserted)
      ]_vars

\* a run returned that stopped in a.jsonl at an unparseable line after a
\* record, whose document it stored, and that ingested b.jsonl after it
C23_Witness ==
    /\ pc = "idle"
    /\ outcome = "returned"
    /\ quiet >= 1
    /\ fs["a.jsonl"].content = Rec("u") \o <<"{", "u">>
    /\ fs["b.jsonl"].content = Rec("u")
    /\ store.session_files["a.jsonl"].last_offset = 4
    /\ store.session_files["b.jsonl"].last_offset = 4
    /\ IdsOf(store.docs) = {<<"a.jsonl", 1, 1>>, <<"b.jsonl", 1, 1>>}
    /\ stats.files_updated = 2

-----------------------------------------------------------------------------
(* The session id of a document *)

\* the writer of a session log: it appends whole records, session_meta
\* records among them, at any moment, or replaces the file by a shorter one
SessChunks == {Rec("m"), Rec("k"), Rec("u")}

WriteSess ==
    \/ \E chunk \in SessChunks : AppendChunk("a.jsonl", chunk)
    \/ \E c \in RewritesOf("a.jsonl") : Rewrite("a.jsonl", c)

NextSess ==
    \/ WriteSess
    \/ \E full \in BOOLEAN : Start(full, TRUE, TRUE)
    \/ BeginFile
    \/ TailFile
    \/ Commit
    \/ Raise
    \/ Kill
    \/ Finish(TRUE)

SpecSess == Init /\ [][NextSess]_vars

\* the start of the k-th line of c counted from byte position off
NthLineStart(c, off, k) ==
    CHOOSE s \in LineStartsFrom(c, off) :
        Cardinality({x \in LineStartsFrom(c, off) : x < s}) = k - 1

\* the line of c that starts at s is a session_meta record with an id
IsMetaLine(c, s) ==
    LET line == LineText(c, s)
    IN  /\ Len(line) = 3 /\ line[1] = "{" /\ line[3] = "}" /\ line[2] \in Bodies
        /\ EventOf(line[2]).type = "session_meta"
        /\ EventOf(line[2]).payload.id \notin {NULL, ""}

\* the starts of the session_meta lines of c that come before position s
MetaLinesBefore(c, s) == {x \in LineStartsFrom(c, 0) : x < s /\ IsMetaLine(c, x)}

\* the id of the session_meta record of the line that starts at s
MetaIdAt(c, s) == EventOf(LineText(c, s)[2]).payload.id

\* C24: a document extracted from a record that follows a session_meta record
\* in the same file carries the session id of the last session_meta record
\* before it in the file, also when that record was read by an earlier run.
\* The file is one that was only ever appended to, or that the run reads from
\* its start.
C24_SessionIdOfLastMeta ==
    [][(TailStep /\ (cur.path \notin rewritten \/ cur.last_offset = 0)) =>
        LET p == cur.path
            c == fs[p].content
        IN  \A d \in txn'.docs \ txn.docs :
                LET s == NthLineStart(c, cur.last_offset, d.line_no - cur.last_line_no)
                    ms == MetaLinesBefore(c, s)
                IN  /\ d.file_path = p
                    /\ d.line_no > cur.last_line_no
                    /\ ms # {} => d.session_id = MetaIdAt(c, Max(ms))
      ]_vars

\* a run has just read a user record appended to a.jsonl, whose session_meta
\* records an earlier run had read and committed: the document carries the id
\* of the second of them
C24_Witness ==
    /\ pc = "loop"
    /\ cur.path = "a.jsonl"
    /\ fs["a.jsonl"].content = Rec("m") \o Rec("k") \o Rec("u")
    /\ "a.jsonl" \in DOMAIN store.session_files
    /\ store.session_files["a.jsonl"].last_offset = 8
    /\ store.session_files["a.jsonl"].session_id = "s2"
    /\ cur.last_offset = 8
    /\ \E d \in txn.docs \ store.docs : d.doc_id = <<"a.jsonl", 3, 1>> /\ d.session_id = "s2"

-----------------------------------------------------------------------------
(* Unchanged files *)

\* the run is about to visit the file p, which has a cursor, and the size and
\* the modification time of p are the stored ones
VisitsUnchanged(p) ==
    /\ pc = "loop"
    /\ paths # <<>>
    /\ p = Head(paths)
    /\ p \in DOMAIN txn.session_files
    /\ Len(fs[p].content) = txn.session_files[p].size
    /\ fs[p].mtime = txn.session_files[p].mtime_epoch

\* C25: when the size of a known file equals its stored size and its
\* modification time the stored one, the run reads no line of it, does not
\* count it in files_updated and changes nothing about it: its documents and
\* its cursor row (offset, line number, size, modification time, session id)
\* stay as they were, and the run goes on with the next file.
C25_UnchangedFileSkipped ==
    [][(\E p \in Paths : VisitsUnchanged(p) /\ fs' = fs /\ pc' # "idle") =>
        /\ txn' = txn
        /\ store' = store
        /\ stats' = stats
        /\ pc' = "loop"
        /\ paths' = Tail(paths)
      ]_vars

\* a run has skipped a.jsonl, which holds documents and was not written to
\* since the run before: nothing was read, nothing counted as updated
C25_Witness ==
    /\ pc = "loop"
    /\ paths = <<>>
    /\ stats.files_scanned = 1
    /\ stats.files_updated = 0
    /\ stats.lines_read = 0
    /\ fs["a.jsonl"].exists
    /\ DocsOf(txn.docs, "a.jsonl") # {}
    /\ txn = store
    /\ Len(fs["a.jsonl"].content) = txn.session_files["a.jsonl"].size
    /\ fs["a.jsonl"].mtime = txn.session_files["a.jsonl"].mtime_epoch

-----------------------------------------------------------------------------
(* A rebuild that raises *)

\* the run is past COMMIT and will try the rebuild
RebuildDue ==
    pc = "post" /\ args.reindex /\ stats.docs_inserted > 0 /\ args.fts_ok

\* C26: when the rebuild raises after the transaction was committed, the run
\* still returns, with fts_reindexed = false, and the documents, sessions and
\* cursors the run committed stay in the store; the ready flag is not set by
\* that run.  No step after COMMIT ends the run as raised.
C26_RebuildFailureCaught ==
    [][/\ (RebuildDue /\ Finish(FALSE)) =>
            /\ outcome' = "returned"
            /\ ~stats'.fts_reindexed
            /\ store' = store
            /\ store' = txn
            /\ settings' = settings
            /\ stats'.docs_inserted = stats.docs_inserted
       /\ pc = "post" => (outcome' # "raised" /\ store' = store /\ store = txn)
      ]_vars

\* a run whose rebuild raised has returned: the documents it inserted are in
\* the store with the cursor of their file, and it reports no reindex
C26_Witness ==
    /\ pc = "idle"
    /\ outcome = "returned"
    /\ args.reindex
    /\ args.fts_ok
    /\ stats.docs_inserted > 0
    /\ ~stats.fts_reindexed
    /\ DocsOf(store.docs, "a.jsonl") # {}
    /\ "a.jsonl" \in DOMAIN store.session_files
    /\ ~fts_index.built

-----------------------------------------------------------------------------
(* The life of a cursor *)

\* no cursor row is removed: not from the committed table, and not from the
\* table of a run that goes on
CursorsKept ==
    /\ DOMAIN store.session_files \subseteq DOMAIN store'.session_files
    /\ pc' # "idle" => DOMAIN txn.session_files \subseteq DOMAIN txn'.session_files

\* C27 as claimed: once a file has a cursor, no step of any refresh run
\* removes it.
C27_CursorNeverRemoved_Claimed == [][CursorsKept]_vars

\* the step is the start of a run with full = true, whose reset deletes every
\* cursor row before the transaction begins
FullResetStep == pc = "idle" /\ pc' = "loop" /\ args'.full

\* C27: once a file has a cursor, no step of a refresh run removes it, also
\* when the file is gone from the source directory, except the full reset of
\* a run with full = true, which deletes every cursor.
C27_CursorNeverRemoved == [][FullResetStep \/ CursorsKept]_vars

\* a run with full = false has returned that began after a.jsonl was removed
\* from the source directory: the cursor of a.jsonl is still in the store
C27_Witness ==
    /\ pc = "idle"
    /\ outcome = "returned"
    /\ quiet >= 1
    /\ ~args.full
    /\ ~fs["a.jsonl"].exists
    /\ "a.jsonl" \in DOMAIN store.session_files

-----------------------------------------------------------------------------
(* The substring scan as a literal filter *)

\* the documents of the connection of the call that pass the role and kind
\* filters and hold the trimmed query literally, the case of letters set aside
LiteralMatches ==
    {d \in Filtered(probe.call.con.docs, probe.call.include_assistant,
                    probe.call.include_internal) :
       Instr(d.text, Strip(probe.call.query)) # 0}

\* the result rows are documents that hold the query literally, each with the
\* position of the first occurrence, no document twice, and as many as the
\* limit allows
LiteralResults ==
    LET res == probe.result.results
    IN  /\ \A i \in 1..Len(res) :
              /\ res[i].doc \in LiteralMatches
              /\ res[i].match_pos = Instr(res[i].doc.text, Strip(probe.call.query))
        /\ \A i \in 1..Len(res), j \in 1..Len(res) : i # j => res[i].doc # res[j].doc
        /\ Len(res) = Min({probe.call.limit, Cardinality(LiteralMatches)})

\* C28: in substring mode search returns exactly the documents that pass the
\* role and kind filters and hold the trimmed query as a literal
\* case-insensitive substring, up to the limit, whatever the characters of the
\* query, each with the position of the first occurrence as match position.
C28_SubstringLiteral ==
    (Searched /\ ~probe.result.raised /\ probe.result.mode = "substring") => LiteralResults

WildcardChars == {"%", "_"}

\* the same for the queries that hold neither % nor _
SubstringLiteralWithoutWildcards ==
    (/\ Searched /\ ~probe.result.raised /\ probe.result.mode = "substring"
     /\ \A i \in 1..Len(probe.call.query) : probe.call.query[i] \notin WildcardChars) =>
        LiteralResults

\* a substring search for a query without wildcards returned one of two
\* documents that hold it, the limit being 1
LiteralLimitWitness ==
    /\ Searched /\ ~probe.result.raised /\ probe.result.mode = "substring"
    /\ \A i \in 1..Len(probe.call.query) : probe.call.query[i] \notin WildcardChars
    /\ probe.call.limit = 1
    /\ Cardinality(LiteralMatches) = 2
    /\ Len(probe.result.results) = 1

-----------------------------------------------------------------------------
(* try_enable_fts on its own *)

\* the number of calls made on one connection
MaxEnables == 3

SettingValues == {NULL, "0", "1"}

InitEnable ==
    /\ fs = [p \in Paths |-> NoFile]
    /\ clock = 0
    /\ store = EmptyTables
    /\ txn = EmptyTables
    /\ settings = [fts_available |-> NULL, fts_index_ready |-> NULL]
    /\ fts_index = NoIndex
    /\ pc = "idle"
    /\ args = NoArgs
    /\ paths = <<>>
    /\ cur = NoCur
    /\ stats = ZeroStats
    /\ outcome = "none"
    /\ quiet = 0
    /\ rewritten = {}
    /\ truncs = {}
    /\ probe \in {[op |-> "try_enable_fts", settings |-> st, loadable |-> l,
                   writable |-> w, calls |-> 0, ok |-> FALSE, raised |-> FALSE,
                   changed |-> FALSE, repeated |-> FALSE] :
                    st \in [fts_available : SettingValues, fts_index_ready : SettingValues],
                    l \in BOOLEAN, w \in BOOLEAN}

\* one call of try_enable_fts on the connection
ApplyEnable ==
    /\ probe.op = "try_enable_fts"
    /\ probe.calls < MaxEnables
    /\ LET en == try_enable_fts(probe.settings, probe.loadable, probe.writable)
       IN  probe' = [probe EXCEPT !.settings = en.settings, !.ok = en.ok,
                                  !.raised = en.raised, !.calls = @ + 1,
                                  !.changed = FALSE,
                                  !.repeated = (probe.calls > 0 /\ ~probe.changed)]
    /\ UNCHANGED <<fs, clock, store, txn, settings, fts_index, pc, args, paths, cur,
                   stats, outcome, quiet, rewritten, truncs>>

\* between two calls the extension becomes loadable, or stops being so
ChangeExtension ==
    /\ probe.op = "try_enable_fts"
    /\ probe.calls < MaxEnables
    /\ probe' = [probe EXCEPT !.loadable = ~@, !.changed = TRUE]
    /\ UNCHANGED <<fs, clock, store, txn, settings, fts_index, pc, args, paths, cur,
                   stats, outcome, quiet, rewritten, truncs>>

NextEnable == ApplyEnable \/ ChangeExtension

SpecEnable == InitEnable /\ [][NextEnable]_vars

\* C29: after try_enable_fts returns, the fts_available setting is "1" when
\* it returned true and "0" when it returned false, it returned true exactly
\* when the extension could be loaded, and is_fts_available reports the value
\* returned; a further call with the extension in the same state returns the
\* same value and leaves the settings as they are.
C29_SettingEqualsReturn ==
    [][(probe'.calls = probe.calls + 1 /\ ~probe'.raised) =>
        /\ probe'.ok = probe.loadable
        /\ probe'.settings["fts_available"] = (IF probe'.ok THEN "1" ELSE "0")
        /\ is_fts_available(probe'.settings) = probe'.ok
        /\ probe'.settings["fts_index_ready"] = probe.settings["fts_index_ready"]
        /\ probe'.repeated =>
               (probe'.ok = probe.ok /\ probe'.settings = probe.settings)
      ]_vars

\* a second call has returned false with the extension as it was at the
\* first, on a connection whose setting said available before the first
C29_Witness ==
    /\ probe.op = "try_enable_fts"
    /\ probe.calls = 2
    /\ probe.repeated
    /\ ~probe.raised
    /\ ~probe.ok
    /\ probe.settings["fts_available"] = "0"
    /\ probe.settings["fts_index_ready"] = "1"

-----------------------------------------------------------------------------
(* extract_docs_from_event on a message record *)

\* the number of items in the content list, and in the summary list
MaxSegs == 2

\* the items of a list: texts, a text of whitespace, and <<>> for an empty
\* text or an item that holds no text
SegItems == {<<"h">>, <<"o", "k">>, <<" ">>, <<>>}

SegLists == UNION {[1..k -> SegItems] : k \in 0..MaxSegs}

ProbeLines == {1, 2}

InitExtract ==
    /\ fs = [p \in Paths |-> NoFile]
    /\ clock = 0
    /\ store = EmptyTables
    /\ txn = EmptyTables
    /\ settings = [fts_available |-> NULL, fts_index_ready |-> NULL]
    /\ fts_index = NoIndex
    /\ pc = "idle"
    /\ args = NoArgs
    /\ paths = <<>>
    /\ cur = NoCur
    /\ stats = ZeroStats
    /\ outcome = "none"
    /\ quiet = 0
    /\ rewritten = {}
    /\ truncs = {}
    /\ probe \in {[op |-> "extract_docs_from_event",
                   event |-> [type |-> "response_item", timestamp |-> 4,
                              payload |-> [type |-> "message", role |-> r,
                                           content |-> c, summary |-> s]],
                   line_no |-> n, include_assistant |-> ia] :
                    r \in {"user", "assistant"}, c \in SegLists, s \in SegLists,
                    n \in ProbeLines, ia \in BOOLEAN}

ApplyExtract ==
    /\ probe.op = "extract_docs_from_event"
    /\ probe' = [op |-> "extracted", event |-> probe.event, line_no |-> probe.line_no,
                 include_assistant |-> probe.include_assistant,
                 result |-> extract_docs_from_event(probe.event, "a.jsonl", probe.line_no,
                                                    "s1", probe.include_assistant, TRUE)]
    /\ UNCHANGED <<fs, clock, store, txn, settings, fts_index, pc, args, paths, cur,
                   stats, outcome, quiet, rewritten, truncs>>

NextExtract == ApplyExtract

SpecExtract == InitExtract /\ [][NextExtract]_vars

\* the positions of the items of the list that hold a text that is not blank
NonBlankAt(items) ==
    {i \in 1..Len(items) : \E j \in 1..Len(items[i]) : items[i][j] \notin Whitespace}

\* the k-th text of the list that is not blank
NthText(items, k) ==
    items[CHOOSE i \in NonBlankAt(items) :
              Cardinality({j \in NonBlankAt(items) : j <= i}) = k]

\* the record of the call is not held back by the assistant flag
Extracted ==
    /\ probe.op = "extracted"
    /\ probe.event.payload.role = "assistant" => probe.include_assistant

\* C30: for a message record, extraction yields one document for each text
\* segment that is not blank: the content segments first, in their order, with
\* kind message_content, the summary segments after them with kind
\* message_summary, numbered 1, 2, ... by one index that runs on across the
\* two lists, so that the ids of the documents of the record are pairwise
\* distinct.
C30_SegmentIndexAcrossLists ==
    Extracted =>
        LET pl == probe.event.payload
            nc == Cardinality(NonBlankAt(pl.content))
            ns == Cardinality(NonBlankAt(pl.summary))
            res == probe.result
        IN  /\ Len(res) = nc + ns
            /\ \A i \in 1..Len(res) :
                  /\ res[i].doc_id = <<"a.jsonl", probe.line_no, i>>
                  /\ res[i].line_no = probe.line_no
                  /\ res[i].role = pl.role
                  /\ res[i].kind = (IF i <= nc THEN "message_content" ELSE "message_summary")
                  /\ res[i].text = (IF i <= nc THEN NthText(pl.content, i)
                                    ELSE NthText(pl.summary, i - nc))
            /\ \A i \in 1..Len(res), j \in 1..Len(res) :
                  i # j => res[i].doc_id # res[j].doc_id

\* a record with a blank and a non-blank content segment and two summary
\* segments gave three documents, the summaries numbered 2 and 3
C30_Witness ==
    /\ probe.op = "extracted"
    /\ probe.event.payload.content = << <<" ">>, <<"h">> >>
    /\ probe.event.payload.summary = << <<"o", "k">>, <<"h">> >>
    /\ Len(probe.result) = 3
    /\ probe.result[2].doc_id[3] = 2
    /\ probe.result[2].kind = "message_summary"
    /\ probe.result[3].doc_id[3] = 3

-----------------------------------------------------------------------------
(* extract_docs_from_event under the ingestion policy flags *)

\* the texts a record carries: a text, a text of whitespace, an empty text
PolicyTexts == {<<"h">>, <<" ">>, <<>>}

InternalTypes == {"agent_reasoning", "item_completed", "exited_review_mode"}

\* payloads of response_item records: messages of both roles and a subtype
\* the extraction does not know
ItemPayloads ==
    {[type |-> "message", role |-> r, content |-> <<t>>, summary |-> <<>>] :
        r \in {"user", "assistant"}, t \in PolicyTexts}
    \cup {[type |-> "function_call"]}

\* payloads of event_msg records: the skipped subtypes, the internal subtypes
\* with and without the key that holds their text, and an unknown subtype
MsgPayloads ==
    {[type |-> s, text |-> t] :
        s \in {"user_message", "agent_message", "agent_reasoning", "token_count"},
        t \in PolicyTexts}
    \cup {[type |-> s] : s \in InternalTypes}
    \cup {[type |-> "item_completed", item |-> [id |-> "i1"]]}
    \cup {[type |-> "item_completed", item |-> [text |-> t]] : t \in PolicyTexts}
    \cup {[type |-> "exited_review_mode", review_output |-> t] : t \in PolicyTexts}

PolicyEvents ==
    {[type |-> "response_item", timestamp |-> 4, payload |-> pl] : pl \in ItemPayloads}
    \cup {[type |-> "event_msg", timestamp |-> 4, payload |-> pl] : pl \in MsgPayloads}
    \cup {[type |-> "turn_context", timestamp |-> 4, payload |-> [type |-> "message"]]}

InitPolicy ==
    /\ fs = [p \in Paths |-> NoFile]
    /\ clock = 0
    /\ store = EmptyTables
    /\ txn = EmptyTables
    /\ settings = [fts_available |-> NULL, fts_index_ready |-> NULL]
    /\ fts_index = NoIndex
    /\ pc = "idle"
    /\ args = NoArgs
    /\ paths = <<>>
    /\ cur = NoCur
    /\ stats = ZeroStats
    /\ outcome = "none"
    /\ quiet = 0
    /\ rewritten = {}
    /\ truncs = {}
    /\ probe \in {[op |-> "extract_docs_from_event", event |-> ev,
                   include_assistant |-> ia, include_internal |-> ii] :
                    ev \in PolicyEvents, ia \in BOOLEAN, ii \in BOOLEAN}

ApplyPolicy ==
    /\ probe.op = "extract_docs_from_event"
    /\ probe' = [op |-> "gated", event |-> probe.event,
                 include_assistant |-> probe.include_assistant,
                 include_internal |-> probe.include_internal,
                 result |-> extract_docs_from_event(probe.event, "a.jsonl", 1, "s1",
                                                    probe.include_assistant,
                                                    probe.include_internal)]
    /\ UNCHANGED <<fs, clock, store, txn, settings, fts_index, pc, args, paths, cur,
                   stats, outcome, quiet, rewritten, truncs>>

SpecPolicy == InitPolicy /\ [][ApplyPolicy]_vars

\* the record of the call is a message record of the assistant
AssistantMessage ==
    /\ probe.event.type = "response_item"
    /\ probe.event.payload.type = "message"
    /\ probe.event.payload.role = "assistant"

\* the record of the call is an event_msg record of an internal subtype
InternalRecord ==
    /\ probe.event.type = "event_msg"
    /\ probe.event.payload.type \in InternalTypes

\* the record of the call is a message record or an internal record
KnownRecord ==
    \/ probe.event.type = "response_item" /\ probe.event.payload.type = "message"
    \/ InternalRecord

\* C31: the policy flags gate extraction: a message record of the assistant
\* yields no document when include_assistant is false; a record of an internal
\* subtype (agent_reasoning, item_completed, exited_review_mode) yields a
\* document only when include_internal is true, and then one of a null role;
\* the user_message and agent_message subtypes and every subtype or record
\* type the extraction does not know yield no document under any flags.
C31_PolicyGates ==
    probe.op = "gated" =>
        /\ AssistantMessage /\ ~probe.include_assistant => probe.result = <<>>
        /\ InternalRecord /\ probe.result # <<>> =>
              /\ probe.include_internal
              /\ Len(probe.result) = 1
              /\ probe.result[1].role = NULL
              /\ probe.result[1].kind \in {"agent_reasoning", "item_completed", "review_output"}
        /\ ~KnownRecord => probe.result = <<>>

\* an item_completed record that carries a text was held back by
\* include_internal, which the assistant flag, being true, did not do
C31_Witness ==
    /\ probe.op = "gated"
    /\ probe.event.type = "event_msg"
    /\ probe.event.payload = [type |-> "item_completed", item |-> [text |-> <<"h">>]]
    /\ probe.include_assistant
    /\ ~probe.include_internal
    /\ probe.result = <<>>

-----------------------------------------------------------------------------
(* The ready flag and the index *)

\* C32: in every state of the store between refresh runs (after a run whose
\* rebuild failed, after a run that only deleted the documents of a truncated
\* file and after a run killed between COMMIT and the flag update as well),
\* fts_index_ready = "1" implies that the index was built over exactly the
\* current set of documents.
C32_ReadyIndexCurrent ==
    pc = "idle" /\ settings.fts_index_ready = "1" =>
        fts_index = rebuild_fts_index(store.docs)

-----------------------------------------------------------------------------
(* A file that only grows by whole records *)

\* the writer of a file that only grows: it appends one whole
\* newline-terminated record at any moment, also while a run reads
WriteGrow == \E chunk \in SessChunks : AppendChunk("a.jsonl", chunk)

\* the runs are incremental ones
NextGrow ==
    \/ WriteGrow
    \/ Start(FALSE, TRUE, TRUE)
    \/ BeginFile
    \/ TailFile
    \/ Commit
    \/ Raise
    \/ Kill
    \/ Finish(TRUE)

SpecGrow == Init /\ [][NextGrow]_vars

\* C33: for a file that only grows by whole newline-terminated well-formed
\* records, incremental runs interleaved with the appends, once a run has
\* returned that no append overtook, leave the documents (ids, line numbers,
\* session ids, kinds, texts) and the cursor offset and line number that one
\* refresh of the final file on an empty store leaves.
C33_IncrementalEqualsFresh ==
    Settled =>
        \A p \in Paths :
            fs[p].exists =>
                LET f == Fresh(fs[p].content, p)
                IN  /\ DocsOf(store.docs, p) = SeqRange(f.docs)
                    /\ LastOffset(store, p) = f.good_off
                    /\ LastLineNo(store, p) = f.good_line
                    /\ f.good_off = Len(fs[p].content)

\* a.jsonl grew to three records while runs read it: the last run found the
\* file changed and read nothing new, the one before having read beyond the
\* size it had taken; the document of the third record carries the session id
\* of the second, which an earlier run had read
C33_Witness ==
    /\ Settled
    /\ fs["a.jsonl"].content = Rec("m") \o Rec("k") \o Rec("u")
    /\ stats.files_updated = 1
    /\ stats.lines_read = 0
    /\ \E d \in store.docs : d.doc_id = <<"a.jsonl", 3, 1>> /\ d.session_id = "s2"

-----------------------------------------------------------------------------
(* Documents and the cursor of their file *)

\* every document of the tables is of a line the cursor of its file has passed
BehindCursor(tables) ==
    \A d \in tables.docs :
        /\ d.file_path \in DOMAIN tables.session_files
        /\ d.line_no >= 1
        /\ d.line_no <= tables.session_files[d.file_path].last_line_no

\* C34: in every committed state of the store, the line number of each
\* document is at least 1 and at most the last line number of the cursor of
\* its file; and a run reads only lines beyond the cursor it starts from, so
\* every document it extracts is of a line that had no document and is new
\* to the store.
C34_DocsBehindCursor ==
    [][/\ BehindCursor(store')
       /\ TailStep =>
            /\ \A d \in DocsOf(txn.docs, cur.path) : d.line_no <= cur.last_line_no
            /\ \A d \in txn'.docs \ txn.docs :
                  d.file_path = cur.path /\ d.line_no > cur.last_line_no
            /\ stats'.docs_inserted - stats.docs_inserted
                  = Cardinality(txn'.docs \ txn.docs)
      ]_vars

\* a run has committed documents of a second read of a.jsonl: the store holds
\* a document of line 1, read by an earlier run, and one of the last line the
\* cursor has passed, read by this run
C34_Witness ==
    /\ pc = "post"
    /\ "a.jsonl" \in DOMAIN store.session_files
    /\ store.session_files["a.jsonl"].last_line_no >= 2
    /\ cur.path = "a.jsonl"
    /\ cur.last_line_no >= 1
    /\ \E d \in store.docs : d.file_path = "a.jsonl" /\ d.line_no = 1
    /\ \E d \in store.docs :
          /\ d.file_path = "a.jsonl"
          /\ d.line_no = store.session_files["a.jsonl"].last_line_no
          /\ d.line_no > cur.last_line_no

-----------------------------------------------------------------------------
(* Session ids after truncation recovery *)

\* the ids of the documents with the session id each carries
SessionIdsOf(docs) == {<<d.doc_id, d.session_id>> : d \in docs}

\* C35: after truncation recovery the documents read again from the file
\* carry the session ids that a fresh ingest of the present content of the
\* file assigns: a record before the first session_meta record of that
\* content gets no session id, not the one remembered from the content the
\* file had before.
C35_TruncationSessionIds ==
    [][(TailStep /\ cur.truncated) =>
        LET p == cur.path
            c == fs[p].content
        IN  /\ SessionIdsOf(DocsOf(txn'.docs, p)) = SessionIdsOf(SeqRange(Fresh(c, p).docs))
            /\ \A d \in DocsOf(txn'.docs, p) :
                  MetaLinesBefore(c, NthLineStart(c, 0, d.line_no)) = {}
                      => d.session_id = NULL
      ]_vars

-----------------------------------------------------------------------------
(* A writer that appends while a run reads *)

\* C36: when a writer appends to a file while a run is under way (after the
\* run took the size and the modification time of the file, before or during
\* the read), the cursor the run commits is still not beyond the size it
\* stores, and the next run, with no further change to the file, skips the
\* file as unchanged.
C36_CursorWithinStoredSize ==
    /\ \A p \in DOMAIN store.session_files :
          store.session_files[p].last_offset <= store.session_files[p].size
    /\ Settled =>
          \A p \in DOMAIN store.session_files :
              fs[p].exists /\ ~Unchanged(Len(fs[p].content), fs[p].mtime,
                                         store.session_files[p])
                  => stats.files_updated > 0

-----------------------------------------------------------------------------
(* Records after an unparseable line *)

\* C37: a well-formed record that lies after an unparseable line is not
\* ingested while that line is unparseable: every run that reads the file
\* stops at the first unparseable line at or after its cursor, stores the
\* cursor at or before the start of that line and inserts no document of that
\* line or of a later one, whatever the file holds after the line.
C37_StuckAtUnparseableLine ==
    [][(TailStep /\ UnparseableFrom(fs[cur.path].content, cur.last_offset) # {}) =>
        LET p == cur.path
            c == fs[p].content
            s == Min(UnparseableFrom(c, cur.last_offset))
        IN  /\ txn'.session_files[p].last_offset <= s
            /\ txn'.session_files[p].last_line_no
                  < LineNoAt(c, cur.last_offset, cur.last_line_no, s)
            /\ \A d \in txn'.docs \ txn.docs :
                  d.line_no < LineNoAt(c, cur.last_offset, cur.last_line_no, s)
      ]_vars

\* a.jsonl holds a newline-terminated line that is no JSON and a user record
\* after it; an earlier run had stopped at the line, and the run that has just
\* read the file with the record appended stopped there again: the cursor is
\* at the start of the line and the record has no document
C37_Witness ==
    /\ pc = "loop"
    /\ cur.path = "a.jsonl"
    /\ fs["a.jsonl"].content = <<"{", "u", "\n">> \o Rec("u")
    /\ "a.jsonl" \in DOMAIN store.session_files
    /\ store.session_files["a.jsonl"].last_offset = 0
    /\ txn.session_files["a.jsonl"].last_offset = 0
    /\ txn.session_files["a.jsonl"].size = 7
    /\ stats.lines_read >= 1
    /\ txn.docs = {}

-----------------------------------------------------------------------------
(* Runs that insert no document *)

\* the step is one of a refresh run
RunStep == pc # "idle" \/ pc' # "idle"

\* no source file holds a byte: a run that starts now inserts no document
NothingToRead == \A p \in Paths : ~fs[p].exists \/ fs[p].content = <<>>

\* the step leaves the ready flag and the index as they are
FlagAndIndexKept ==
    /\ settings'["fts_index_ready"] = settings["fts_index_ready"]
    /\ fts_index' = fts_index

\* the ready flag becomes "1" only in a run that has inserted a document
ReadyOnlyAfterInsert ==
    (settings["fts_index_ready"] # "1" /\ settings'["fts_index_ready"] = "1")
        => (stats'.docs_inserted > 0 /\ stats'.fts_reindexed)

\* the step leaves the index ready or not ready, as search reads the flag
\* (search.py:134), and leaves the index as it is
ReadinessKept ==
    /\ (settings'["fts_index_ready"] = "1") = (settings["fts_index_ready"] = "1")
    /\ fts_index' = fts_index

\* C38 as claimed: a refresh run that inserts no document leaves the
\* fts_index_ready flag (ready or not) and the index unchanged in each of its
\* steps, also when reindexing is requested and the capability is available;
\* and the flag becomes "1" only in a run that has inserted a document.
C38_NoInsertKeepsFlag_Claimed ==
    [][/\ (RunStep /\ stats'.docs_inserted = 0 /\ (pc = "idle" => NothingToRead))
            => ReadinessKept
       /\ ReadyOnlyAfterInsert
      ]_vars

\* C38: a refresh run with full = false that inserts no document leaves the
\* fts_index_ready flag and the index unchanged in each of its steps, also
\* when reindexing is requested and the capability is available; the full
\* reset of a run with full = true sets the flag to "0" and leaves the index,
\* whether the run inserts a document or not; and the flag becomes "1" only
\* in a run that has inserted a document, so that once it is cleared, runs
\* that insert nothing do not make the index ready again.
C38_NoInsertKeepsFlag ==
    [][/\ (RunStep /\ stats'.docs_inserted = 0 /\ ~FullResetStep) => FlagAndIndexKept
       /\ FullResetStep => (settings'["fts_index_ready"] = "0" /\ fts_index' = fts_index)
       /\ ReadyOnlyAfterInsert
      ]_vars

\* a run with reindexing requested and the capability available has returned
\* without inserting a document, on a store that holds documents and whose
\* flag an earlier run had cleared: the flag is still "0"
C38_Witness ==
    /\ pc = "idle"
    /\ outcome = "returned"
    /\ ~args.full
    /\ args.reindex
    /\ args.fts_ok
    /\ stats.docs_inserted = 0
    /\ store.docs # {}
    /\ settings["fts_index_ready"] = "0"
    /\ fts_index.built

-----------------------------------------------------------------------------
(* Internal kinds in the results of search *)

InternalKinds == {"agent_reasoning", "item_completed", "review_output"}

\* the result rows of the call whose document is of an internal kind
InternalRows ==
    {i \in 1..Len(probe.result.results) : probe.result.results[i].doc.kind \in InternalKinds}

InternalRowReturned ==
    /\ probe.op = "searched"
    /\ probe.call.include_internal
    /\ probe.call.include_assistant
    /\ probe.result.mode = "fts"
    /\ InternalRows # {}

====
